---------------------------- MODULE Spec2Model ----------------------------
(***************************************************************************)
(* A state-machine model of the tower-defense simulation core of tatd:     *)
(* src/game.js (GameState, WaveManager, InfectionManager, GameManager),    *)
(* src/entities.js (Enemy, Tower, Projectile) and src/unnamed/part_001     *)
(* (config.js: GameConstants, path, GeometryUtils).                        *)
(*                                                                         *)
(* Units.  Times are integer milliseconds (the code's seconds x 1000),     *)
(* lengths are integer pixels, percentages are integers.  JavaScript       *)
(* numbers are treated as exact: the configuration below is chosen so that *)
(* every product the code forms (stat x multiplier, speed x dt) is an      *)
(* integer in these units.  The one exception is the sell refund, whose    *)
(* product totalCost x 0.7 is rounded as a double (SellValue).             *)
(* JavaScript objects are heap cells: towers and                           *)
(* enemies live in the heaps tw and en and are referred to by their index, *)
(* so a reference held by a closure or a projectile outlives the removal   *)
(* of the object from the active list, as in the code.  A falsy stat       *)
(* (undefined, 0, null) is the number 0.                                   *)
(***************************************************************************)
EXTENDS Integers, Sequences, FiniteSets, TLC

(***************************************************************************)
(* Bounds of the model.                                                    *)
(***************************************************************************)
MaxPlaced == 2
MaxFrames == 4
MaxIdleFrames == 1
MaxTimers == 2
MaxWaveFrames == 12
MaxCount == 3
MaxWalk == 4
MaxTargets == 2
MaxChaseFrames == 60
MaxLayout == 3
MaxPack == 3

(***************************************************************************)
(* Program constants.                                                      *)
(***************************************************************************)
ENEMY_SPEED_MULTIPLIER == 60
PROJECTILE_SPEED == 400
MAX_DELTA_TIME == 100
DEFAULT_DELTA_TIME == 16
PATH_CLEARANCE == 45
TOWER_MIN_DISTANCE == 40
TOWER_RADIUS == 20
TOWER_HIT_RADIUS == 25
SELL_REFUND_PCT == 70
HIT_EPSILON == 10
MAX_LIFETIME == 5000
SLOW_DURATION == 1500
BOSS_SLOW_THRESHOLD == 35
DEFAULT_AOE_RADIUS == 50
DEFAULT_INTERVAL == 1000
DEFAULT_SCAN_DELAY == 5000
\* The not-a-number value of a delta time, a number that is no gap in
\* milliseconds: no comparison with it holds but the isNaN test.
NaN == 999999999
CANVAS_WIDTH == 1200
CANVAS_HEIGHT == 600

\* config.js: path (the last waypoint is canvas width + 50).
path ==
  << [x |-> -50, y |-> 200], [x |-> 300, y |-> 200], [x |-> 300, y |-> 400],
     [x |-> 600, y |-> 400], [x |-> 600, y |-> 100], [x |-> 900, y |-> 100],
     [x |-> 900, y |-> 500], [x |-> CANVAS_WIDTH + 50, y |-> 500] >>

(***************************************************************************)
(* Arithmetic helpers.                                                     *)
(***************************************************************************)
Abs(n) == IF n < 0 THEN -n ELSE n
Min(a, b) == IF a <= b THEN a ELSE b
Max(a, b) == IF a >= b THEN a ELSE b
Sq(n) == n * n

\* Math.hypot(ax - bx, ay - by), squared.
Dist2(a, b) == Sq(a.x - b.x) + Sq(a.y - b.y)

\* floor of the square root of n >= 0.
RECURSIVE SqrtFrom(_, _)
SqrtFrom(n, r) == IF Sq(r + 1) > n THEN r ELSE SqrtFrom(n, r + 1)
Hypot(dx, dy) == SqrtFrom(Sq(dx) + Sq(dy), Max(Abs(dx), Abs(dy)))

\* Entity.isInRange: distanceTo(other) <= range, for a range >= 0.
IsInRange(a, b, range) == range >= 0 /\ Dist2(a, b) <= Sq(range)

\* value x (1 + pct/100)
PctMul(value, pct) == (value * (100 + pct)) \div 100

(***************************************************************************)
(* Configuration (data.json, read by GameManager.loadGameData).            *)
(***************************************************************************)
NoStats ==
  [ dmg |-> 0, firerate_s |-> 0, range |-> 0, income |-> 0, interval_s |-> 0,
    buff_firerate_pct |-> 0, buff_range_pct |-> 0, scan_delay_s |-> 0,
    auto_heal |-> 0, auto_heal_time_s |-> 0, slow_pct |-> 0, aoe_radius |-> 0,
    cost |-> 0 ]

TowerConfig ==
  << [ id |-> "drone", type |-> "single", cost_place |-> 100,
       base |-> [NoStats EXCEPT !.dmg = 1, !.firerate_s = 200, !.range = 100,
                                !.slow_pct = 50],
       upgrades |-> << [NoStats EXCEPT !.cost = 30, !.dmg = 2,
                                       !.firerate_s = 200, !.range = 100,
                                       !.slow_pct = 25] >> ],
     [ id |-> "sprinkler", type |-> "aoe", cost_place |-> 120,
       base |-> [NoStats EXCEPT !.dmg = 1, !.firerate_s = 200, !.range = 100,
                                !.aoe_radius = 60],
       upgrades |-> << >> ],
     [ id |-> "greenhouse", type |-> "support", cost_place |-> 100,
       base |-> [NoStats EXCEPT !.range = 100, !.buff_firerate_pct = 20,
                                !.buff_range_pct = 20],
       upgrades |-> << [NoStats EXCEPT !.cost = 50, !.range = 100,
                                       !.buff_firerate_pct = 40,
                                       !.buff_range_pct = 40] >> ],
     [ id |-> "sensor", type |-> "support_sensor", cost_place |-> 100,
       base |-> [NoStats EXCEPT !.range = 100, !.scan_delay_s = 100,
                                !.auto_heal = 1, !.auto_heal_time_s = 5000],
       upgrades |-> << >> ],
     [ id |-> "eco_basic", type |-> "eco", cost_place |-> 90,
       base |-> [NoStats EXCEPT !.income = 10, !.interval_s = 200],
       upgrades |-> << >> ] >>

TowerIds == { TowerConfig[i].id : i \in DOMAIN TowerConfig }
TowerData(id) == CHOOSE d \in { TowerConfig[i] : i \in DOMAIN TowerConfig } : d.id = id

EnemyConfig ==
  << [ id |-> "pest", hp |-> 2, speed |-> 100, reward |-> 10 ],
     [ id |-> "pest_boss", hp |-> 3, speed |-> 100, reward |-> 50 ] >>

\* gameData.waves of the game specification: a wave of two composition groups
\* and a wave of one.
GameWaves ==
  << [ composition |-> << [ enemy_id |-> "pest", count |-> 2, interval_ms |-> 200 ],
                          [ enemy_id |-> "pest_boss", count |-> 1, interval_ms |-> 0 ] >> ],
     [ composition |-> << [ enemy_id |-> "pest", count |-> 1, interval_ms |-> 0 ] >> ] >>

GameSettings ==
  [ start_money |-> 300, start_lives |-> 2,
    infection_mechanic |->
      [ every_s |-> 200, cure_clicks_required |-> 2,
        effect |-> [ firerate_pct |-> 25, range_pct |-> -25 ] ] ]


InfectionSettings == GameSettings.infection_mechanic

(***************************************************************************)
(* State.                                                                  *)
(***************************************************************************)
VARIABLES
  currentState,      \* GameManager.currentState
  isPaused,          \* GameManager.isPaused
  loopRunning,       \* GameManager.animationFrameId is set: a frame is scheduled
  money, lives,      \* GameState resources
  waves,             \* gameState.gameData.waves
  currentWave, waveInProgress,
  en, enemies,       \* the Enemy objects ever created; gameState.enemies (references)
  tw, towers,        \* the Tower objects ever created; gameState.towers (references)
  projectiles,       \* gameState.projectiles
  placingTowerType,  \* gameState.placingTowerType ("" is null)
  gameStats,         \* gameState.gameStats
  spawnQueue, spawnTimer,   \* WaveManager
  infTimer, infEnabled,     \* InfectionManager.timer, .enabled
  infObjects,        \* number of infection records created so far (object identity)
  timers,            \* pending setTimeout callbacks of Tower.scanForInfections
  tickLog,           \* the subsystems the last update call ran, in order
  frames,            \* updates run while a wave was played (bounded)
  idleFrames         \* updates run otherwise (bounded)

vars ==
  << currentState, isPaused, loopRunning, money, lives, waves, currentWave,
     waveInProgress, en, enemies, tw, towers, projectiles, placingTowerType,
     gameStats, spawnQueue, spawnTimer, infTimer, infEnabled, infObjects,
     timers, tickLog, frames, idleFrames >>

\* The whole program state as one record, for the sequential composition of the
\* steps of a handler.
World ==
  [ currentState |-> currentState, isPaused |-> isPaused,
    loopRunning |-> loopRunning, money |-> money, lives |-> lives,
    waves |-> waves, currentWave |-> currentWave,
    waveInProgress |-> waveInProgress,
    en |-> en, enemies |-> enemies, tw |-> tw, towers |-> towers,
    projectiles |-> projectiles, placingTowerType |-> placingTowerType,
    gameStats |-> gameStats, spawnQueue |-> spawnQueue,
    spawnTimer |-> spawnTimer, infTimer |-> infTimer,
    infEnabled |-> infEnabled, infObjects |-> infObjects, timers |-> timers,
    tickLog |-> tickLog ]

Commit(s) ==
  /\ currentState' = s.currentState
  /\ isPaused' = s.isPaused
  /\ loopRunning' = s.loopRunning
  /\ money' = s.money
  /\ lives' = s.lives
  /\ waves' = s.waves
  /\ currentWave' = s.currentWave
  /\ waveInProgress' = s.waveInProgress
  /\ en' = s.en
  /\ enemies' = s.enemies
  /\ tw' = s.tw
  /\ towers' = s.towers
  /\ projectiles' = s.projectiles
  /\ placingTowerType' = s.placingTowerType
  /\ gameStats' = s.gameStats
  /\ spawnQueue' = s.spawnQueue
  /\ spawnTimer' = s.spawnTimer
  /\ infTimer' = s.infTimer
  /\ infEnabled' = s.infEnabled
  /\ infObjects' = s.infObjects
  /\ timers' = s.timers
  /\ tickLog' = s.tickLog

Range(seq) == { seq[i] : i \in DOMAIN seq }

(***************************************************************************)
(* GameState: economy.                                                     *)
(***************************************************************************)
earnMoney(s, amount) ==
  [s EXCEPT !.money = @ + amount, !.gameStats.moneyEarned = @ + amount]

canAfford(s, cost) == s.money >= cost

\* GameState.purchase: the state after the call; PurchaseOk is its result.
PurchaseOk(s, cost) == canAfford(s, cost)

\* A purchase that deducts whatever the balance.
purchaseOnCredit(s, cost) == [s EXCEPT !.money = @ - cost]

purchase(s, cost) == IF canAfford(s, cost) THEN [s EXCEPT !.money = @ - cost] ELSE s

\* A base that loses a life below zero.
takeDamageUnclamped(s, amount) == [s EXCEPT !.lives = @ - amount]

\* GameState.takeDamage.
takeDamage(s, amount) == [s EXCEPT !.lives = Max(0, @ - amount)]

(***************************************************************************)
(* Tower: stats.                                                           *)
(***************************************************************************)
NoInfection == << >>
IsInfected(t) == t.infection # NoInfection

\* The level's stat block: towerData.base or towerData.upgrades[level - 1].
LevelData(t) ==
  IF t.level = 0 THEN TowerData(t.id).base ELSE TowerData(t.id).upgrades[t.level]

\* The multipliers of the forEach in calculateBuffedStats, as fractions over
\* 100^k: each qualifying support contributes (100 - pct)/100 and (100 + pct)/100.
RECURSIVE BuffMultipliers(_, _, _)
BuffMultipliers(heap, self, allTowers) ==
  IF allTowers = << >> THEN [fnum |-> 1, fden |-> 1, rnum |-> 1, rden |-> 1]
  ELSE
    LET m == BuffMultipliers(heap, self, SubSeq(allTowers, 1, Len(allTowers) - 1))
        u == allTowers[Len(allTowers)]
        tower == heap[u]
    IN  IF u = self \/ tower.type # "support" THEN m
        ELSE IF ~IsInRange(heap[self], tower, tower.baseStats.range) THEN m
        ELSE
          LET buffs == tower.baseStats
              m1 == IF buffs.buff_firerate_pct # 0
                    THEN [m EXCEPT !.fnum = @ * (100 - buffs.buff_firerate_pct),
                                   !.fden = @ * 100]
                    ELSE m
          IN  IF buffs.buff_range_pct # 0
              THEN [m1 EXCEPT !.rnum = @ * (100 + buffs.buff_range_pct),
                              !.rden = @ * 100]
              ELSE m1

\* A buff computation that looks at the first tower of the list only.
calculateBuffedStatsHead(heap, self, base, allTowers) ==
  IF heap[self].type = "support" \/ heap[self].type = "support_sensor" THEN base
  ELSE
    LET m == BuffMultipliers(heap, self,
                             IF allTowers = << >> THEN << >> ELSE << Head(allTowers) >>)
    IN  [base EXCEPT !.firerate_s = (@ * m.fnum) \div m.fden,
                     !.range = (@ * m.rnum) \div m.rden]

\* Tower.calculateBuffedStats, for the tower self whose baseStats are base.
calculateBuffedStats(heap, self, base, allTowers) ==
  IF heap[self].type = "support" \/ heap[self].type = "support_sensor" THEN base
  ELSE
    LET m == BuffMultipliers(heap, self, allTowers)
    IN  [base EXCEPT !.firerate_s = (@ * m.fnum) \div m.fden,
                     !.range = (@ * m.rnum) \div m.rden]

\* A debuff that is applied to the stats the tower already has.
applyInfectionDebuffAgain(t, stats) ==
  IF ~IsInfected(t) THEN stats
  ELSE
    LET debuff == InfectionSettings.effect
    IN  [t.stats EXCEPT !.firerate_s = PctMul(@, Abs(debuff.firerate_pct)),
                        !.range = PctMul(@, debuff.range_pct)]

\* Tower.applyInfectionDebuff, past its early return: the stats under the
\* configured effect debuff.
InfectionDebuff(stats, debuff) ==
  [stats EXCEPT !.firerate_s = PctMul(@, Abs(debuff.firerate_pct)),
                !.range = PctMul(@, debuff.range_pct)]

\* Tower.applyInfectionDebuff.
applyInfectionDebuff(t, stats) ==
  IF ~IsInfected(t) THEN stats
  ELSE InfectionDebuff(stats, InfectionSettings.effect)

\* Tower.applyStats(allTowers): the heap after tower self recomputed its three
\* stat snapshots against the towers listed in allTowers.
applyStats(heap, self, allTowers) ==
  LET t == heap[self]
      base == LevelData(t)
      buffed == calculateBuffedStats([heap EXCEPT ![self].baseStats = base],
                                     self, base, allTowers)
  IN  [heap EXCEPT ![self].baseStats = base,
                   ![self].buffedStats = buffed,
                   ![self].stats = applyInfectionDebuff(t, buffed)]

\* towers.forEach(t => t.applyStats(towers))
RECURSIVE RecomputeFrom(_, _, _)
RecomputeFrom(heap, todo, allTowers) ==
  IF todo = << >> THEN heap
  ELSE RecomputeFrom(applyStats(heap, Head(todo), allTowers), Tail(todo), allTowers)

RecomputeAll(heap, allTowers) == RecomputeFrom(heap, allTowers, allTowers)

\* new Tower(x, y, towerId, gameData): the constructor ends with applyStats().
NewTower(heap, id, x, y) ==
  LET d == TowerData(id)
      self == Len(heap) + 1
      t == [ id |-> id, type |-> d.type, x |-> x, y |-> y, level |-> 0,
             totalCost |-> d.cost_place, cooldown |-> 0,
             baseStats |-> NoStats, buffedStats |-> NoStats, stats |-> NoStats,
             infection |-> NoInfection ]
  IN  applyStats(Append(heap, t), self, << >>)

(***************************************************************************)
(* Enemy.                                                                  *)
(***************************************************************************)
EnemyData(id) == CHOOSE d \in Range(EnemyConfig) : d.id = id

\* new Enemy(enemyData)
NewEnemy(enemyData) ==
  [ id |-> enemyData.id, maxHp |-> enemyData.hp, hp |-> enemyData.hp,
    baseSpeed |-> enemyData.speed, speed |-> enemyData.speed,
    reward |-> enemyData.reward, x |-> path[1].x, y |-> path[1].y,
    pathIndex |-> 0, distanceAlongSegment |-> 0, reachedEnd |-> FALSE,
    statusEffects |-> << >> ]

isAlive(e) == e.hp > 0

HasEffect(e, type) == type \in DOMAIN e.statusEffects

\* Enemy.recalculateSpeed: baseSpeed x (1 - slow value), the value in percent.
recalculateSpeed(e) ==
  [e EXCEPT !.speed = IF HasEffect(e, "slow")
                      THEN (e.baseSpeed * (100 - e.statusEffects["slow"].value)) \div 100
                      ELSE e.baseSpeed]

\* An application that replaces the stored effect whatever its strength.
applyStatusEffectAlways(e, type, value, duration) ==
  IF e.id = "pest_boss" /\ type = "slow" /\ value < BOSS_SLOW_THRESHOLD THEN e
  ELSE recalculateSpeed(
         [e EXCEPT !.statusEffects =
            (type :> [value |-> value, duration |-> duration]) @@ @])

\* Enemy.applyStatusEffect(type, value, duration)
applyStatusEffect(e, type, value, duration) ==
  IF e.id = "pest_boss" /\ type = "slow" /\ value < BOSS_SLOW_THRESHOLD THEN e
  ELSE IF \/ ~HasEffect(e, type)
          \/ e.statusEffects[type].value < value
          \/ e.statusEffects[type].duration < duration
       THEN recalculateSpeed(
              [e EXCEPT !.statusEffects =
                 (type :> [value |-> value, duration |-> duration]) @@ @])
       ELSE e

\* Enemy.removeStatusEffect(type)
removeStatusEffect(e, type) ==
  recalculateSpeed(
    [e EXCEPT !.statusEffects = [k \in DOMAIN @ \ {type} |-> @[k]]])

\* A decay that removes the expired effects and leaves the speed as it was.
updateStatusEffectsKeepSpeed(e, dt) ==
  LET decayed == [e EXCEPT !.statusEffects =
                     [k \in DOMAIN @ |-> [@[k] EXCEPT !.duration = @ - dt]]]
      expired == { k \in DOMAIN decayed.statusEffects :
                     decayed.statusEffects[k].duration <= 0 }
  IN  [decayed EXCEPT !.statusEffects = [k \in DOMAIN @ \ expired |-> @[k]]]

\* Enemy.updateStatusEffects(deltaTime): every effect decays, an expired one is removed.
updateStatusEffects(e, dt) ==
  LET decayed == [e EXCEPT !.statusEffects =
                     [k \in DOMAIN @ |-> [@[k] EXCEPT !.duration = @ - dt]]]
      expired == { k \in DOMAIN decayed.statusEffects :
                     decayed.statusEffects[k].duration <= 0 }
  IN  IF expired = {} THEN decayed
      ELSE recalculateSpeed(
             [decayed EXCEPT !.statusEffects = [k \in DOMAIN @ \ expired |-> @[k]]])

\* A walk that starts the segment again at its end instead of taking the next one.
moveAlongPathAgain(e, dt) ==
  IF e.pathIndex >= Len(path) - 1 THEN [e EXCEPT !.reachedEnd = TRUE]
  ELSE
    LET segmentLength == Hypot(path[e.pathIndex + 2].x - path[e.pathIndex + 1].x,
                               path[e.pathIndex + 2].y - path[e.pathIndex + 1].y)
        d == e.distanceAlongSegment + (e.speed * dt * ENEMY_SPEED_MULTIPLIER) \div 1000
    IN  [e EXCEPT !.distanceAlongSegment = IF d >= segmentLength THEN 0 ELSE d]

\* Enemy.moveAlongPath(deltaTime); pathIndex is 0-based as in the code.
moveAlongPath(e, dt) ==
  IF e.pathIndex >= Len(path) - 1 THEN [e EXCEPT !.reachedEnd = TRUE]
  ELSE
    LET currentPoint == path[e.pathIndex + 1]
        nextPoint == path[e.pathIndex + 2]
        dx == nextPoint.x - currentPoint.x
        dy == nextPoint.y - currentPoint.y
        segmentLength == Hypot(dx, dy)
        moveDistance == (e.speed * dt * ENEMY_SPEED_MULTIPLIER) \div 1000
        d == e.distanceAlongSegment + moveDistance
    IN  IF d >= segmentLength
        THEN [e EXCEPT !.pathIndex = @ + 1, !.distanceAlongSegment = 0,
                       !.reachedEnd = (e.pathIndex + 1 >= Len(path) - 1)]
        ELSE [e EXCEPT !.distanceAlongSegment = d,
                       !.x = currentPoint.x + (dx * d) \div segmentLength,
                       !.y = currentPoint.y + (dy * d) \div segmentLength]

\* An update that decays the status effects and leaves the enemy where it is.
enemyUpdateInPlace(e, dt) ==
  IF e.reachedEnd \/ ~isAlive(e) THEN e
  ELSE updateStatusEffects(e, dt)

\* Enemy.update(deltaTime)
enemyUpdate(e, dt) ==
  IF e.reachedEnd \/ ~isAlive(e) THEN e
  ELSE moveAlongPath(updateStatusEffects(e, dt), dt)

\* Enemy.takeDamage(amount)
enemyTakeDamage(e, amount) == [e EXCEPT !.hp = Max(0, @ - amount)]

(***************************************************************************)
(* Tower: targeting and firing.                                            *)
(***************************************************************************)
\* Tower.findTargets: the living enemies of the list within stats.range.
findTargets(s, u, list) ==
  SelectSeq(list, LAMBDA i : isAlive(s.en[i]) /\ IsInRange(s.tw[u], s.en[i], s.tw[u].stats.range))

\* A comparator that leaves the hp key out.
TargetCompareNoHp(t, a, b) ==
  IF a.pathIndex # b.pathIndex THEN b.pathIndex - a.pathIndex
  ELSE Dist2(t, a) - Dist2(t, b)

\* The comparator of Tower.selectTarget: negative when a sorts before b. The
\* distances are compared by their squares.
TargetCompare(t, a, b) ==
  IF a.pathIndex # b.pathIndex THEN b.pathIndex - a.pathIndex
  ELSE IF a.hp # b.hp THEN b.hp - a.hp
  ELSE Dist2(t, a) - Dist2(t, b)

\* Array.prototype.sort with that comparator (a stable insertion sort).
RECURSIVE InsertTarget(_, _, _, _)
InsertTarget(s, u, sorted, i) ==
  IF sorted = << >> THEN << i >>
  ELSE IF TargetCompare(s.tw[u], s.en[i], s.en[Head(sorted)]) < 0
       THEN << i >> \o sorted
       ELSE << Head(sorted) >> \o InsertTarget(s, u, Tail(sorted), i)

RECURSIVE SortTargets(_, _, _)
SortTargets(s, u, targets) ==
  IF targets = << >> THEN << >>
  ELSE InsertTarget(s, u, SortTargets(s, u, SubSeq(targets, 1, Len(targets) - 1)),
                    targets[Len(targets)])

\* Tower.selectTarget(targets): the first element of the sorted candidates.
selectTarget(s, u, targets) == Head(SortTargets(s, u, targets))

\* Tower.createProjectile(target) and new Projectile(data); target 0 is null.
createProjectile(s, u, target) ==
  LET t == s.tw[u]
      aoe == t.type = "aoe"
  IN  [ x |-> t.x, y |-> t.y, damage |-> t.stats.dmg, towerId |-> t.id,
        towerType |-> t.type,
        target |-> IF aoe THEN 0 ELSE target,
        targetPos |-> IF aoe THEN [x |-> s.en[target].x, y |-> s.en[target].y]
                      ELSE [x |-> 0, y |-> 0],
        aoeRadius |-> IF aoe
                      THEN (IF t.stats.aoe_radius # 0 THEN t.stats.aoe_radius
                            ELSE DEFAULT_AOE_RADIUS)
                      ELSE 0,
        slow_pct |-> IF aoe THEN 0 ELSE t.stats.slow_pct,
        lifetime |-> 0, active |-> TRUE ]

canAttack(t) == t.stats.dmg # 0 /\ t.stats.firerate_s # 0 /\ t.stats.range # 0

\* Tower.attack(gameState)
attack(s, u) ==
  LET targets == findTargets(s, u, s.enemies)
  IN  IF targets = << >> THEN s
      ELSE LET target == selectTarget(s, u, targets)
           IN  [s EXCEPT !.tw[u].cooldown = s.tw[u].stats.firerate_s,
                         !.projectiles = Append(@, createProjectile(s, u, target))]

\* A combat update that does not wait for the cooldown.
updateCombatEager(s, u) ==
  IF canAttack(s.tw[u]) THEN attack(s, u) ELSE s

\* Tower.updateCombat
updateCombat(s, u) ==
  IF s.tw[u].cooldown <= 0 /\ canAttack(s.tw[u]) THEN attack(s, u) ELSE s

\* Tower.updateEconomy
updateEconomy(s, u) ==
  LET t == s.tw[u]
  IN  IF t.cooldown <= 0 /\ t.stats.income # 0
      THEN [earnMoney(s, t.stats.income) EXCEPT
              !.tw[u].cooldown = IF t.stats.interval_s # 0 THEN t.stats.interval_s
                                 ELSE DEFAULT_INTERVAL]
      ELSE s

\* Tower.scanForInfections: the first infected tower of gameState.towers in range is
\* notified and, with auto_heal, a timeout is set whose closure holds that tower.
\* seen is the infection record the tower carried then.
scanForInfections(s, u) ==
  LET infectedTowers ==
        SelectSeq(s.towers, LAMBDA v :
          IsInfected(s.tw[v]) /\ IsInRange(s.tw[u], s.tw[v], s.tw[u].stats.range))
  IN  IF infectedTowers = << >> THEN s
      ELSE IF s.tw[u].stats.auto_heal # 0
           THEN [s EXCEPT !.timers =
                   Append(@, [ tower |-> infectedTowers[1],
                               seen |-> s.tw[infectedTowers[1]].infection[1].obj ])]
           ELSE s

\* Tower.updateSensor
updateSensor(s, u) ==
  IF s.tw[u].cooldown <= 0
  THEN [scanForInfections(s, u) EXCEPT
          !.tw[u].cooldown = IF s.tw[u].stats.scan_delay_s # 0
                             THEN s.tw[u].stats.scan_delay_s
                             ELSE DEFAULT_SCAN_DELAY]
  ELSE s

\* Tower.update(deltaTime, gameState)
towerUpdate(s, u, dt) ==
  LET s1 == IF s.tw[u].cooldown > 0 THEN [s EXCEPT !.tw[u].cooldown = @ - dt] ELSE s
      type == s.tw[u].type
  IN  CASE type = "eco" -> updateEconomy(s1, u)
        [] type = "support_sensor" -> updateSensor(s1, u)
        [] type \in {"single", "single_heavy", "aoe"} -> updateCombat(s1, u)
        [] OTHER -> s1

(***************************************************************************)
(* Tower: upgrade, infection, cure.                                        *)
(***************************************************************************)
\* An upgrade that leaves the upgrade's cost out of totalCost.
towerUpgradeUncounted(s, u) ==
  LET t == s.tw[u]
      upgrades == TowerData(t.id).upgrades
  IN  IF t.level >= Len(upgrades) THEN s
      ELSE [s EXCEPT !.tw = applyStats([@ EXCEPT ![u].level = @ + 1], u, s.towers)]

\* Tower.upgrade(allTowers)
towerUpgrade(s, u) ==
  LET t == s.tw[u]
      upgrades == TowerData(t.id).upgrades
  IN  IF t.level >= Len(upgrades) THEN s
      ELSE [s EXCEPT !.tw =
              applyStats([@ EXCEPT ![u].totalCost = @ + upgrades[t.level + 1].cost,
                                   ![u].level = @ + 1],
                         u, s.towers)]

\* An infection that takes towers of every type.
infectAnyType(s, u) ==
  [s EXCEPT
     !.infObjects = @ + 1,
     !.tw = applyStats(
              [@ EXCEPT ![u].infection =
                 << [ cureClicks |-> 0,
                      cureRequired |-> InfectionSettings.cure_clicks_required,
                      obj |-> s.infObjects + 1 ] >>],
              u, << >>)]

\* Tower.infect(): a new infection record, then applyStats() with no argument.
infect(s, u) ==
  IF s.tw[u].type = "support_sensor" THEN s
  ELSE [s EXCEPT
          !.infObjects = @ + 1,
          !.tw = applyStats(
                   [@ EXCEPT ![u].infection =
                      << [ cureClicks |-> 0,
                           cureRequired |-> InfectionSettings.cure_clicks_required,
                           obj |-> s.infObjects + 1 ] >>],
                   u, << >>)]

\* Tower.cure(gameState)
cure(s, u) ==
  IF ~IsInfected(s.tw[u]) THEN s
  ELSE [s EXCEPT !.tw = applyStats([@ EXCEPT ![u].infection = NoInfection], u, s.towers),
                 !.gameStats.infectionsCured = @ + 1]

\* A click handler that cures at the first click.
handleClickCureAtOnce(s, u) ==
  IF ~IsInfected(s.tw[u]) THEN s
  ELSE cure([s EXCEPT !.tw[u].infection[1].cureClicks = @ + 1], u)

\* Tower.handleClickCure(gameState)
handleClickCure(s, u) ==
  IF ~IsInfected(s.tw[u]) THEN s
  ELSE LET s1 == [s EXCEPT !.tw[u].infection[1].cureClicks = @ + 1]
           inf == s1.tw[u].infection[1]
       IN  IF inf.cureClicks >= inf.cureRequired THEN cure(s1, u) ELSE s1

(***************************************************************************)
(* Projectile.                                                             *)
(***************************************************************************)
\* a / b rounded toward zero.
Quot(a, b) == IF a >= 0 THEN a \div b ELSE -((-a) \div b)

\* A hit that leaves the projectile in flight.
hitAndFlyOn(s, k) ==
  LET p == s.projectiles[k]
  IN  IF p.target = 0 \/ ~isAlive(s.en[p.target])
      THEN [s EXCEPT !.projectiles[k].active = FALSE]
      ELSE
        LET damaged == enemyTakeDamage(s.en[p.target], p.damage)
            slowed == IF p.slow_pct # 0
                      THEN applyStatusEffect(damaged, "slow", p.slow_pct, SLOW_DURATION)
                      ELSE damaged
        IN  [s EXCEPT !.en[p.target] = slowed,
                      !.gameStats.damageDealt =
                         IF p.towerId \in DOMAIN @
                         THEN [@ EXCEPT ![p.towerId] = @ + p.damage] ELSE @]

\* Projectile.hit(gameState), for projectile number k.
hit(s, k) ==
  LET p == s.projectiles[k]
  IN  IF p.target = 0 \/ ~isAlive(s.en[p.target])
      THEN [s EXCEPT !.projectiles[k].active = FALSE]
      ELSE
        LET damaged == enemyTakeDamage(s.en[p.target], p.damage)
            slowed == IF p.slow_pct # 0
                      THEN applyStatusEffect(damaged, "slow", p.slow_pct, SLOW_DURATION)
                      ELSE damaged
        IN  [s EXCEPT !.en[p.target] = slowed,
                      !.gameStats.damageDealt =
                         IF p.towerId \in DOMAIN @
                         THEN [@ EXCEPT ![p.towerId] = @ + p.damage] ELSE @,
                      !.projectiles[k].active = FALSE]

\* Projectile.explode(gameState)
RECURSIVE DamageAll(_, _, _)
DamageAll(s, targets, p) ==
  IF targets = << >> THEN s
  ELSE DamageAll(
         [s EXCEPT !.en[Head(targets)] = enemyTakeDamage(@, p.damage),
                   !.gameStats.damageDealt =
                      IF p.towerId \in DOMAIN @
                      THEN [@ EXCEPT ![p.towerId] = @ + p.damage] ELSE @],
         Tail(targets), p)

\* An explosion that reaches every living enemy of the list.
explodeEverywhere(s, k) ==
  LET p == s.projectiles[k]
      targets == SelectSeq(s.enemies, LAMBDA i : isAlive(s.en[i]))
  IN  [DamageAll(s, targets, p) EXCEPT !.projectiles[k].active = FALSE]

explode(s, k) ==
  LET p == s.projectiles[k]
      targets == SelectSeq(s.enemies, LAMBDA i :
                   isAlive(s.en[i]) /\ IsInRange(p, s.en[i], p.aoeRadius))
  IN  [DamageAll(s, targets, p) EXCEPT !.projectiles[k].active = FALSE]

\* The step toward a destination shared by updateSingleTarget and updateAOE:
\* within the epsilon the projectile resolves, otherwise it advances speed x dt.
MoveToward(p, dest, dt) ==
  LET dx == dest.x - p.x
      dy == dest.y - p.y
      distance == Hypot(dx, dy)
      moveDistance == (PROJECTILE_SPEED * dt) \div 1000
  IN  [p EXCEPT !.x = @ + Quot(dx * moveDistance, distance),
                !.y = @ + Quot(dy * moveDistance, distance)]

Arrived(p, dest) == Dist2(p, dest) < Sq(HIT_EPSILON)

\* Projectile.updateSingleTarget
updateSingleTarget(s, k, dt) ==
  LET p == s.projectiles[k]
  IN  IF p.target = 0 \/ ~isAlive(s.en[p.target])
      THEN [s EXCEPT !.projectiles[k].active = FALSE]
      ELSE IF Arrived(p, s.en[p.target]) THEN hit(s, k)
      ELSE [s EXCEPT !.projectiles[k] = MoveToward(p, s.en[p.target], dt)]

\* Projectile.updateAOE
updateAOE(s, k, dt) ==
  LET p == s.projectiles[k]
  IN  IF Arrived(p, p.targetPos) THEN explode(s, k)
      ELSE [s EXCEPT !.projectiles[k] = MoveToward(p, p.targetPos, dt)]

\* An update that never retires a projectile for its age.
projectileUpdateAgeless(s, k, dt) ==
  IF ~s.projectiles[k].active THEN s
  ELSE
    LET s1 == [s EXCEPT !.projectiles[k].lifetime = @ + dt]
    IN  IF s1.projectiles[k].aoeRadius > 0 THEN updateAOE(s1, k, dt)
        ELSE updateSingleTarget(s1, k, dt)

\* Projectile.update(deltaTime, gameState)
projectileUpdate(s, k, dt) ==
  IF ~s.projectiles[k].active THEN s
  ELSE
    LET s1 == [s EXCEPT !.projectiles[k].lifetime = @ + dt]
    IN  IF s1.projectiles[k].lifetime > MAX_LIFETIME
        THEN [s1 EXCEPT !.projectiles[k].active = FALSE]
        ELSE IF s1.projectiles[k].aoeRadius > 0 THEN updateAOE(s1, k, dt)
        ELSE updateSingleTarget(s1, k, dt)

(***************************************************************************)
(* WaveManager.                                                            *)
(***************************************************************************)
\* The entries one composition group pushes: i x interval for i = 0 .. count - 1.
\* A queue builder whose k-th entry of a group is due one interval late.
GroupEntriesFromOne(group) ==
  IF group.enemy_id \notin { EnemyConfig[i].id : i \in DOMAIN EnemyConfig } THEN << >>
  ELSE [ i \in 1 .. group.count |->
           [ enemy_id |-> group.enemy_id, spawnTime |-> i * group.interval_ms ] ]

GroupEntries(group) ==
  IF group.enemy_id \notin { EnemyConfig[i].id : i \in DOMAIN EnemyConfig } THEN << >>
  ELSE [ i \in 1 .. group.count |->
           [ enemy_id |-> group.enemy_id, spawnTime |-> (i - 1) * group.interval_ms ] ]

RECURSIVE BuildQueue(_)
BuildQueue(composition) ==
  IF composition = << >> THEN << >>
  ELSE GroupEntries(Head(composition)) \o BuildQueue(Tail(composition))

\* WaveManager.startWave(waveNumber); StartWaveOk is its result.
StartWaveOk(s, waveNumber) == waveNumber \in DOMAIN s.waves
startWave(s, waveNumber) ==
  IF ~StartWaveOk(s, waveNumber) THEN s
  ELSE [s EXCEPT !.spawnQueue = BuildQueue(s.waves[waveNumber].composition),
                 !.spawnTimer = 0]

\* The while loop of WaveManager.update: entries are taken from the head of the
\* queue as long as the head is due.
RECURSIVE DrainQueue(_)
DrainQueue(s) ==
  IF s.spawnQueue # << >> /\ Head(s.spawnQueue).spawnTime <= s.spawnTimer
  THEN DrainQueue(
         [s EXCEPT !.spawnQueue = Tail(@),
                   !.en = Append(@, NewEnemy(EnemyData(Head(s.spawnQueue).enemy_id))),
                   !.enemies = Append(@, Len(s.en) + 1)])
  ELSE s

\* WaveManager.update(deltaTime)
waveUpdate(s, dt) ==
  IF s.spawnQueue = << >> THEN s
  ELSE DrainQueue([s EXCEPT !.spawnTimer = @ + dt])

\* A completion test that looks at the spawn queue only.
isCompleteQueueOnly(s) == s.spawnQueue = << >>

\* WaveManager.isComplete()
isComplete(s) == s.spawnQueue = << >> /\ s.enemies = << >>

(***************************************************************************)
(* InfectionManager.                                                       *)
(***************************************************************************)
\* An infection tick that draws its victim from all the towers.
infectRandomTowerOfAll(s, rnd) ==
  IF s.towers = << >> THEN s
  ELSE [infect(s, s.towers[(rnd % Len(s.towers)) + 1]) EXCEPT
          !.gameStats.infectionsTotal = @ + 1]

\* InfectionManager.infectRandomTower; rnd stands for Math.random().
infectRandomTower(s, rnd) ==
  LET eligible == SelectSeq(s.towers, LAMBDA u :
                    ~IsInfected(s.tw[u]) /\ s.tw[u].type # "support_sensor")
  IN  IF eligible = << >> THEN s
      ELSE [infect(s, eligible[(rnd % Len(eligible)) + 1]) EXCEPT
              !.gameStats.infectionsTotal = @ + 1]

\* InfectionManager.update(deltaTime)
infectionUpdate(s, dt, rnd) ==
  IF ~s.infEnabled \/ ~s.waveInProgress THEN s
  ELSE LET s1 == [s EXCEPT !.infTimer = @ + dt]
       IN  IF s1.infTimer >= InfectionSettings.every_s
           THEN infectRandomTower([s1 EXCEPT !.infTimer = 0], rnd)
           ELSE s1

\* InfectionManager.stop()
infectionStop(s) == [s EXCEPT !.infEnabled = FALSE, !.infTimer = 0]

(***************************************************************************)
(* GameManager: the frame.                                                 *)
(***************************************************************************)
Log(s, name) == [s EXCEPT !.tickLog = Append(@, name)]

\* GameManager.gameOver / victory / waveComplete
gameOver(s) == infectionStop([s EXCEPT !.currentState = "game_over"])

victory(s) == infectionStop([s EXCEPT !.currentState = "victory"])

waveComplete(s) ==
  LET s1 == [s EXCEPT !.waveInProgress = FALSE, !.currentState = "wave_break"]
  IN  IF s1.currentWave >= Len(s1.waves) THEN victory(s1) ELSE s1

\* GameManager.updateTowers: towers.forEach(tower => tower.update(...))
RECURSIVE UpdateTowersFrom(_, _, _)
UpdateTowersFrom(s, todo, dt) ==
  IF todo = << >> THEN s
  ELSE UpdateTowersFrom(towerUpdate(s, Head(todo), dt), Tail(todo), dt)

updateTowers(s, dt) == Log(UpdateTowersFrom(s, s.towers, dt), "towers")

\* GameManager.updateProjectiles: every projectile is updated, then the inactive
\* ones are filtered out.
RECURSIVE UpdateProjectilesFrom(_, _, _)
UpdateProjectilesFrom(s, k, dt) ==
  IF k > Len(s.projectiles) THEN s
  ELSE UpdateProjectilesFrom(projectileUpdate(s, k, dt), k + 1, dt)

updateProjectiles(s, dt) ==
  LET s1 == UpdateProjectilesFrom(s, 1, dt)
  IN  Log([s1 EXCEPT !.projectiles = SelectSeq(@, LAMBDA p : p.active)], "projectiles")

\* The forEach of GameManager.updateEnemies; gone collects enemiesToRemove.
RECURSIVE UpdateEnemiesFrom(_, _, _, _)
UpdateEnemiesFrom(s, todo, gone, dt) ==
  IF todo = << >> THEN [s EXCEPT !.enemies = SelectSeq(@, LAMBDA i : i \notin gone)]
  ELSE
    LET i == Head(todo)
        s1 == [s EXCEPT !.en[i] = enemyUpdate(@, dt)]
        e == s1.en[i]
    IN  IF e.reachedEnd
        THEN LET s2 == takeDamage(s1, 1)
             IN  UpdateEnemiesFrom(IF s2.lives <= 0 THEN gameOver(s2) ELSE s2,
                                   Tail(todo), gone \cup {i}, dt)
        ELSE IF ~isAlive(e)
        THEN UpdateEnemiesFrom(
               [earnMoney(s1, e.reward) EXCEPT !.gameStats.enemiesKilled = @ + 1],
               Tail(todo), gone \cup {i}, dt)
        ELSE UpdateEnemiesFrom(s1, Tail(todo), gone, dt)

updateEnemies(s, dt) ==
  Log(UpdateEnemiesFrom(Log(s, "enemies"), s.enemies, {}, dt), "removal")

\* The last statement of GameManager.updateGameplay.
checkWaveCompletion(s) ==
  IF s.waveInProgress /\ isComplete(s) THEN waveComplete(s) ELSE s

\* GameManager.updateGameplay(deltaTime)
updateGameplay(s, dt, rnd) ==
  LET s1 == Log(infectionUpdate(s, dt, rnd), "infection")
      s2 == Log(waveUpdate(s1, dt), "spawn")
      s3 == updateTowers(s2, dt)
      s4 == updateProjectiles(s3, dt)
      s5 == updateEnemies(s4, dt)
  IN  checkWaveCompletion(s5)

\* A validation that takes every delta time as it comes.
ValidDeltaAsIs(deltaTime) == deltaTime

\* The validation at the head of GameManager.update: !deltaTime ||
\* isNaN(deltaTime) || deltaTime <= 0.
ValidDelta(deltaTime) ==
  IF deltaTime = 0 \/ deltaTime = NaN \/ deltaTime <= 0 THEN DEFAULT_DELTA_TIME
  ELSE deltaTime

\* GameManager.update(deltaTime)
update(s, deltaTime, rnd) ==
  LET dt == ValidDelta(deltaTime)
      s0 == [s EXCEPT !.tickLog = << >>]
  IN  CASE s.currentState = "playing" -> updateGameplay(s0, dt, rnd)
        [] s.currentState = "wave_break" -> updateTowers(s0, dt)
        [] OTHER -> s0

\* A frame that updates the game whether it is paused or not.
gameLoopAlways(s, gap, rnd) ==
  LET deltaTime == IF gap = NaN THEN NaN ELSE Min(gap, MAX_DELTA_TIME)
      s1 == update(s, deltaTime, rnd)
  IN  [s1 EXCEPT !.loopRunning = s1.currentState \notin {"game_over", "victory"}]

\* GameManager.gameLoop(timestamp), gap = timestamp - lastTime in milliseconds;
\* Math.min of a NaN is NaN.
gameLoop(s, gap, rnd) ==
  LET deltaTime == IF gap = NaN THEN NaN ELSE Min(gap, MAX_DELTA_TIME)
      s1 == IF ~s.isPaused THEN update(s, deltaTime, rnd) ELSE s
  IN  [s1 EXCEPT !.loopRunning = s1.currentState \notin {"game_over", "victory"}]

(***************************************************************************)
(* GameManager: commands.                                                  *)
(***************************************************************************)
\* GeometryUtils.isPointNearLineSegment for the path's axis-parallel segments: the
\* clamped projection of the point is its nearest point of the segment.
isPointNearLine(point, lineStart, lineEnd, maxDistance) ==
  LET projection ==
        [ x |-> Max(Min(lineStart.x, lineEnd.x), Min(point.x, Max(lineStart.x, lineEnd.x))),
          y |-> Max(Min(lineStart.y, lineEnd.y), Min(point.y, Max(lineStart.y, lineEnd.y))) ]
  IN  Dist2(point, projection) < Sq(maxDistance)

\* GameManager.canPlaceTowerAt(x, y)
canPlaceTowerAt(s, x, y) ==
  /\ ~(x < TOWER_RADIUS \/ x > CANVAS_WIDTH - TOWER_RADIUS
        \/ y < TOWER_RADIUS \/ y > CANVAS_HEIGHT - TOWER_RADIUS)
  /\ \A i \in 1 .. Len(path) - 1 :
        ~isPointNearLine([x |-> x, y |-> y], path[i], path[i + 1], PATH_CLEARANCE)
  /\ \A k \in DOMAIN s.towers :
        Dist2([x |-> x, y |-> y], s.tw[s.towers[k]]) >= Sq(TOWER_MIN_DISTANCE)

\* GameManager.selectTowerToPlace(towerId)
selectTowerToPlace(s, towerId) ==
  IF towerId \notin TowerIds THEN s
  ELSE IF canAfford(s, TowerData(towerId).cost_place)
       THEN [s EXCEPT !.placingTowerType = towerId]
       ELSE s

\* GameManager.cancelTowerPlacement()
cancelTowerPlacement(s) == [s EXCEPT !.placingTowerType = ""]

\* A placement that takes the money before it looks at the site.
placeTowerPayFirst(s, x, y) ==
  IF s.placingTowerType = "" THEN s
  ELSE
    LET towerData == TowerData(s.placingTowerType)
    IN  IF ~PurchaseOk(s, towerData.cost_place) THEN s
        ELSE
          LET s1 == purchase(s, towerData.cost_place)
              heap == NewTower(s1.tw, s1.placingTowerType, x, y)
              list == Append(s1.towers, Len(heap))
          IN  IF canPlaceTowerAt(s, x, y)
              THEN cancelTowerPlacement(
                     [s1 EXCEPT !.tw = RecomputeAll(heap, list), !.towers = list,
                                !.gameStats.towersPlaced = @ + 1])
              ELSE s1

\* GameManager.placeTower(x, y)
placeTower(s, x, y) ==
  IF s.placingTowerType = "" THEN s
  ELSE
    LET towerData == TowerData(s.placingTowerType)
    IN  IF canPlaceTowerAt(s, x, y) /\ PurchaseOk(s, towerData.cost_place)
        THEN
          LET s1 == purchase(s, towerData.cost_place)
              heap == NewTower(s1.tw, s1.placingTowerType, x, y)
              list == Append(s1.towers, Len(heap))
          IN  cancelTowerPlacement(
                [s1 EXCEPT !.tw = RecomputeAll(heap, list), !.towers = list,
                           !.gameStats.towersPlaced = @ + 1])
        ELSE s

\* An upgrade that goes through when the purchase fails.
upgradeTowerOnCredit(s, u) ==
  LET towerData == TowerData(s.tw[u].id)
  IN  IF s.tw[u].level >= Len(towerData.upgrades) THEN s
      ELSE
        LET s1 == towerUpgrade(purchase(s, towerData.upgrades[s.tw[u].level + 1].cost), u)
        IN  [s1 EXCEPT !.gameStats.towersUpgraded = @ + 1,
                       !.tw = RecomputeAll(@, s1.towers)]

\* GameManager.upgradeTower(tower)
upgradeTower(s, u) ==
  LET towerData == TowerData(s.tw[u].id)
  IN  IF s.tw[u].level >= Len(towerData.upgrades) THEN s
      ELSE
        LET upgradeCost == towerData.upgrades[s.tw[u].level + 1].cost
        IN  IF PurchaseOk(s, upgradeCost)
            THEN LET s1 == towerUpgrade(purchase(s, upgradeCost), u)
                 IN  [s1 EXCEPT !.gameStats.towersUpgraded = @ + 1,
                                !.tw = RecomputeAll(@, s1.towers)]
            ELSE s

\* The greatest power of two that is at most n, from p up.
RECURSIVE TopBit(_, _)
TopBit(n, p) == IF 2 * p > n THEN p ELSE TopBit(n, 2 * p)

\* Math.floor(totalCost * 0.7) in double arithmetic. The double 0.7 is
\* 0.7 x (1 - (4/7) x 2^-53), so the product lies just below 0.7 x totalCost. When
\* 0.7 x totalCost is an integer N the product is rounded to a double: back to N
\* when N < 1.75 x 2^k (2^k the leading bit of N; at 1.75 x 2^k the tie goes to N),
\* to the double below N otherwise, whose floor is N - 1.
SellValue(totalCost) ==
  LET N == (7 * totalCost) \div 10
  IN  IF totalCost > 0 /\ (7 * totalCost) % 10 = 0 /\ 4 * N > 7 * TopBit(N, 1)
      THEN N - 1
      ELSE N

\* GameManager.sellTower(tower)
sellTower(s, u) ==
  LET sellValue == SellValue(s.tw[u].totalCost)
      s1 == earnMoney(s, sellValue)
      list == SelectSeq(s1.towers, LAMBDA v : v # u)
  IN  [s1 EXCEPT !.towers = list, !.tw = RecomputeAll(@, list)]

\* GameManager.tryClickCure(x, y)
tryClickCure(s, x, y) ==
  LET found == SelectSeq(s.towers, LAMBDA u :
                 Dist2([x |-> x, y |-> y], s.tw[u]) < Sq(TOWER_HIT_RADIUS)
                 /\ IsInfected(s.tw[u]))
  IN  IF found = << >> THEN s ELSE handleClickCure(s, found[1])

\* A start-wave command that does not look at the state of the game.
startNextWaveAnyState(s) ==
  LET s1 == [s EXCEPT !.currentWave = @ + 1]
  IN  IF s1.currentWave > Len(s1.waves) THEN victory(s1)
      ELSE IF StartWaveOk(s1, s1.currentWave)
           THEN startWave([s1 EXCEPT !.waveInProgress = TRUE,
                                     !.currentState = "playing"],
                          s1.currentWave)
           ELSE s1

\* GameManager.startNextWave()
startNextWave(s) ==
  IF s.currentState # "wave_break" THEN s
  ELSE
    LET s1 == [s EXCEPT !.currentWave = @ + 1]
    IN  IF s1.currentWave > Len(s1.waves) THEN victory(s1)
        ELSE IF StartWaveOk(s1, s1.currentWave)
             THEN startWave([s1 EXCEPT !.waveInProgress = TRUE,
                                       !.currentState = "playing"],
                            s1.currentWave)
             ELSE s1

\* GameManager.togglePause()
togglePause(s) ==
  IF s.currentState = "playing" THEN [s EXCEPT !.isPaused = ~@] ELSE s

\* GameManager.startGame(): startGameLoop runs the first gameLoop at once, with a
\* zero gap.
startGame(s) ==
  IF s.currentState # "menu" THEN s
  ELSE LET s1 == [s EXCEPT !.currentState = "wave_break"]
       IN  IF s1.loopRunning THEN s1 ELSE gameLoop(s1, 0, 0)

\* A callback that counts a cure whether or not the tower is still infected.
autoCureUnchecked(s, tower) ==
  [cure(s, tower) EXCEPT !.gameStats.infectionsCured = s.gameStats.infectionsCured + 1]

\* The callback of the setTimeout in Tower.scanForInfections.
autoCure(s, tower) == IF IsInfected(s.tw[tower]) THEN cure(s, tower) ELSE s

(***************************************************************************)
(* The specification: the program after GameManager.initialize(), driven   *)
(* by the frame callback, the player's commands and the pending timeouts.  *)
(***************************************************************************)
\* The canvas positions the player clicks: two free sites 40 px apart near the
\* first waypoint (86 px and 114 px from it), and a site on the path.
Spots == { [x |-> 20, y |-> 250], [x |-> 20, y |-> 290], [x |-> 300, y |-> 300] }

\* The gaps between two frame timestamps, in milliseconds.
FrameGaps == { 100, 250 }

\* The state after construction: new GameManager(), before the start button.
Fresh ==
  [ currentState |-> "menu", isPaused |-> FALSE, loopRunning |-> FALSE,
    money |-> GameSettings.start_money, lives |-> GameSettings.start_lives,
    waves |-> GameWaves, currentWave |-> 0, waveInProgress |-> FALSE,
    en |-> << >>, enemies |-> << >>, tw |-> << >>, towers |-> << >>,
    projectiles |-> << >>, placingTowerType |-> "",
    gameStats |-> [ moneyEarned |-> GameSettings.start_money, towersPlaced |-> 0,
                    towersUpgraded |-> 0, infectionsTotal |-> 0,
                    infectionsCured |-> 0, enemiesKilled |-> 0,
                    damageDealt |-> [ id \in TowerIds |-> 0 ] ],
    spawnQueue |-> << >>, spawnTimer |-> 0, infTimer |-> 0, infEnabled |-> TRUE,
    infObjects |-> 0, timers |-> << >>, tickLog |-> << >> ]

\* The program starts in state s.
StartIn(s) ==
  /\ currentState = s.currentState
  /\ isPaused = s.isPaused
  /\ loopRunning = s.loopRunning
  /\ money = s.money
  /\ lives = s.lives
  /\ waves = s.waves
  /\ currentWave = s.currentWave
  /\ waveInProgress = s.waveInProgress
  /\ en = s.en
  /\ enemies = s.enemies
  /\ tw = s.tw
  /\ towers = s.towers
  /\ projectiles = s.projectiles
  /\ placingTowerType = s.placingTowerType
  /\ gameStats = s.gameStats
  /\ spawnQueue = s.spawnQueue
  /\ spawnTimer = s.spawnTimer
  /\ infTimer = s.infTimer
  /\ infEnabled = s.infEnabled
  /\ infObjects = s.infObjects
  /\ timers = s.timers
  /\ tickLog = s.tickLog
  /\ frames = 0
  /\ idleFrames = 0

Init == StartIn(Fresh)

Sensors(s) == { k \in DOMAIN s.towers : s.tw[s.towers[k]].type = "support_sensor" }

Command(s) == Commit(s) /\ UNCHANGED << frames, idleFrames >>

StartGame ==
  /\ currentState = "menu"
  /\ Command(startGame(World))

\* One requestAnimationFrame callback, gap milliseconds after the last one, for a
\* gap of gaps; at most maxFrames updates of a wave in play are run.
FrameOf(gaps, maxFrames) ==
  /\ loopRunning
  /\ ~isPaused =>
        IF currentState = "playing" THEN frames < maxFrames ELSE idleFrames < MaxIdleFrames
  /\ Len(timers) + Cardinality(Sensors(World)) <= MaxTimers
  /\ \E gap \in gaps, rnd \in 0 .. MaxPlaced - 1 :
        Commit(gameLoop(World, gap, rnd))
  /\ frames' = IF ~isPaused /\ currentState = "playing" THEN frames + 1 ELSE frames
  /\ idleFrames' = IF ~isPaused /\ currentState # "playing" THEN idleFrames + 1
                   ELSE idleFrames

Frame == FrameOf(FrameGaps, MaxFrames)

\* The player picks one of the tower types picks in the shop.
SelectFrom(picks) ==
  /\ Len(tw) < MaxPlaced
  /\ placingTowerType = ""
  /\ \E id \in picks : Command(selectTowerToPlace(World, id))

SelectTowerToPlace == SelectFrom(TowerIds)

PlaceTower ==
  /\ placingTowerType # ""
  /\ \E spot \in Spots : Command(placeTower(World, spot.x, spot.y))

CancelTowerPlacement ==
  /\ placingTowerType # ""
  /\ Command(cancelTowerPlacement(World))

UpgradeTower == \E u \in Range(towers) : Command(upgradeTower(World, u))

SellTower == \E u \in Range(towers) : Command(sellTower(World, u))

\* InputManager.handleRightClick, when no tower is being placed.
TryClickCure ==
  /\ placingTowerType = ""
  /\ \E spot \in Spots : Command(tryClickCure(World, spot.x, spot.y))

StartNextWave ==
  /\ currentState \in {"wave_break", "playing"}
  /\ Command(startNextWave(World))

TogglePause ==
  /\ currentState # "menu"
  /\ Command(togglePause(World))

\* The oldest pending timeout of scanForInfections fires: the timeouts all have
\* the delay auto_heal_time_s of the one sensor type, so they fire in the order
\* they were set, any wall-clock time after.
AutoCureFires ==
  /\ timers # << >>
  /\ Command([autoCure(World, Head(timers).tower) EXCEPT !.timers = Tail(timers)])

Next ==
  \/ StartGame
  \/ Frame
  \/ SelectTowerToPlace
  \/ PlaceTower
  \/ CancelTowerPlacement
  \/ UpgradeTower
  \/ SellTower
  \/ TryClickCure
  \/ StartNextWave
  \/ TogglePause
  \/ AutoCureFires

Spec == Init /\ [][Next]_vars

(***************************************************************************)
(* The wave scheduler on its own: a game without towers, whose wave list   *)
(* is drawn from WaveChoices and whose frames come 50 or 100 ms apart.     *)
(***************************************************************************)
SingleGroups ==
  { [ enemy_id |-> "pest", count |-> n, interval_ms |-> i ] :
      n \in 0 .. MaxCount, i \in { 0, 50, 500 } }

WaveChoices ==
  { << [ composition |-> << g >> ] >> : g \in SingleGroups } \cup { GameWaves }

InitWave == \E w \in WaveChoices : StartIn([Fresh EXCEPT !.waves = w])

WaveFrame == FrameOf({ 50, 100 }, MaxWaveFrames)

NextWave ==
  \/ StartGame
  \/ StartNextWave
  \/ WaveFrame

SpecWave == InitWave /\ [][NextWave]_vars

(***************************************************************************)
(* Waves played to their end: a started game whose wave list is drawn from *)
(* WaveChoices, with no tower, a drone or an upgraded drone by the path;    *)
(* the waves are started and the frames come 100 ms or more apart.  The    *)
(* browser keeps calling gameLoop while the loop runs, so a frame of a     *)
(* wave in play, the step that advances the frame counter, is taken as    *)
(* long as it stays possible.                                              *)
(***************************************************************************)
InitDrain ==
  \E w \in WaveChoices, build \in { "none", "drone", "upgraded" } :
    LET started == startGame([Fresh EXCEPT !.waves = w])
        placed == placeTower(selectTowerToPlace(started, "drone"), 20, 250)
    IN  StartIn(CASE build = "none" -> started
                  [] build = "drone" -> placed
                  [] OTHER -> upgradeTower(placed, 1))

DrainFrame == FrameOf({ MAX_DELTA_TIME }, MaxChaseFrames)

NextDrain ==
  \/ StartNextWave
  \/ DrainFrame

FairDrain ==
  /\ InitDrain
  /\ [][NextDrain]_vars
  /\ WF_frames(/\ loopRunning
               /\ ~isPaused
               /\ currentState = "playing"
               /\ frames < MaxChaseFrames
               /\ frames' = frames + 1)

(***************************************************************************)
(* The wave scheduler with the pause button.                               *)
(***************************************************************************)
NextPause ==
  \/ StartGame
  \/ StartNextWave
  \/ TogglePause
  \/ WaveFrame

SpecPause == InitWave /\ [][NextPause]_vars

(***************************************************************************)
(* A campaign: combat and economy towers are placed and upgraded, and the  *)
(* waves are played to their end.                                          *)
(***************************************************************************)
CampaignSelect == SelectFrom({ "drone", "sprinkler", "eco_basic" })

CampaignFrame == FrameOf(FrameGaps, MaxWaveFrames)

NextCampaign ==
  \/ StartGame
  \/ StartNextWave
  \/ CampaignSelect
  \/ PlaceTower
  \/ UpgradeTower
  \/ CampaignFrame

SpecCampaign == Init /\ [][NextCampaign]_vars

(***************************************************************************)
(* Targeting on its own: one drone at ArenaSpot and a list of enemies, each *)
(* an enemy of the configuration that walked the path in steps of          *)
(* 16 or 50 ms and took some damage; the drone attacks once.               *)
(***************************************************************************)
ArenaSpot == [ x |-> 250, y |-> 250 ]

Walks == UNION { [ 1 .. n -> { 16, 50 } ] : n \in 0 .. MaxWalk }

RECURSIVE Walk(_, _)
Walk(e, w) == IF w = << >> THEN e ELSE Walk(moveAlongPath(e, Head(w)), Tail(w))

ArenaEnemies ==
  { enemyTakeDamage(Walk(NewEnemy(d), w), h) :
      d \in Range(EnemyConfig), w \in Walks, h \in 0 .. 1 }

\* Wave 1 is started with a drone on ArenaSpot.
ArenaBase ==
  startNextWave(
    placeTower(selectTowerToPlace(startGame(Fresh), "drone"), ArenaSpot.x, ArenaSpot.y))

InitTarget ==
  \E n \in 1 .. MaxTargets : \E list \in [ 1 .. n -> ArenaEnemies ] :
    StartIn([ArenaBase EXCEPT !.spawnQueue = << >>, !.en = list,
                              !.enemies = [ i \in DOMAIN list |-> i ]])

\* The drone is ready and attacks.
TargetAttack ==
  /\ projectiles = << >>
  /\ Commit(updateCombat(World, 1))
  /\ UNCHANGED << frames, idleFrames >>

NextTarget == TargetAttack

SpecTarget == InitTarget /\ [][NextTarget]_vars

(***************************************************************************)
(* Curing by hand on its own: greenhouses and drones are placed, a wave is  *)
(* in play so that infections spread, and the player right-clicks towers   *)
(* and pauses the game; no sensor is ever placed, so every cure is a click *)
(* cure.                                                                   *)
(***************************************************************************)
CureSelect == SelectFrom({ "greenhouse", "drone" })

NextCure ==
  \/ StartGame
  \/ StartNextWave
  \/ CureSelect
  \/ PlaceTower
  \/ Frame
  \/ TryClickCure
  \/ TogglePause

SpecCure == Init /\ [][NextCure]_vars

(***************************************************************************)
(* The shop: a game with 220, 250 or 300 of starting money; towers          *)
(* are selected, placed, upgraded and sold before the first wave, while    *)
(* the frames of the wave break update the towers.                         *)
(***************************************************************************)
InitShop ==
  \E m \in { 220, 250, 300 } :
    StartIn([Fresh EXCEPT !.money = m, !.gameStats.moneyEarned = m])

ShopSelect == SelectFrom({ "drone", "greenhouse", "eco_basic" })

NextShop ==
  \/ StartGame
  \/ ShopSelect
  \/ PlaceTower
  \/ CancelTowerPlacement
  \/ UpgradeTower
  \/ SellTower
  \/ Frame

SpecShop == InitShop /\ [][NextShop]_vars

(***************************************************************************)
(* Status effects on their own: one enemy in play, slows of SlowValues are *)
(* applied to it and decay.                                                *)
(***************************************************************************)
SlowValues == { 25, 35, 50 }

\* Every on-hit slow lasts SLOW_DURATION (Projectile.hit).
SlowDurations == { SLOW_DURATION }

InitSlow ==
  \E d \in Range(EnemyConfig) :
    StartIn([ArenaBase EXCEPT !.spawnQueue = << >>, !.en = << NewEnemy(d) >>,
                              !.enemies = << 1 >>])

\* enemy.applyStatusEffect('slow', value, duration)
SlowApplied ==
  \E value \in SlowValues, duration \in SlowDurations :
    /\ Commit([World EXCEPT !.en[1] = applyStatusEffect(@, "slow", value, duration)])
    /\ UNCHANGED << frames, idleFrames >>

\* enemy.updateStatusEffects(deltaTime)
SlowDecays ==
  \E dt \in { 50, 100, 500 } :
    /\ Commit([World EXCEPT !.en[1] = updateStatusEffects(@, dt)])
    /\ UNCHANGED << frames, idleFrames >>

NextSlow ==
  \/ SlowApplied
  \/ SlowDecays

SpecSlow == InitSlow /\ [][NextSlow]_vars

(***************************************************************************)
(* An enemy on the march: one enemy in play is updated with time steps of  *)
(* 50 or 100 ms while slows of SlowValues are applied to it.               *)
(***************************************************************************)
\* enemy.update(deltaTime)
MarchTick ==
  \E dt \in { 50, 100 } :
    /\ Commit([World EXCEPT !.en[1] = enemyUpdate(@, dt)])
    /\ UNCHANGED << frames, idleFrames >>

NextMarch ==
  \/ SlowApplied
  \/ MarchTick

SpecMarch == InitSlow /\ [][NextMarch]_vars

(***************************************************************************)
(* A chase: one drone next to the path and one enemy in play whose          *)
(* configured speed is at least that of a projectile; the frames come      *)
(* MAX_DELTA_TIME or more apart.                                           *)
(***************************************************************************)
\* The enemies entry of the configuration for a pest of speed v.
ChaseData(v) == [ id |-> "pest", hp |-> 2, speed |-> v, reward |-> 10 ]

InitChase ==
  \E v \in { 7, 8, 10, 20 }, spot \in { [x |-> 20, y |-> 250], ArenaSpot } :
    StartIn([startNextWave(
               placeTower(selectTowerToPlace(startGame(Fresh), "drone"), spot.x, spot.y))
             EXCEPT !.spawnQueue = << >>, !.en = << NewEnemy(ChaseData(v)) >>,
                    !.enemies = << 1 >>])

ChaseFrame == FrameOf({ MAX_DELTA_TIME }, MaxChaseFrames)

NextChase == ChaseFrame

SpecChase == InitChase /\ [][NextChase]_vars

(***************************************************************************)
(* A volley: one drone or sprinkler next to the first segment of the path   *)
(* and a pack of up to MaxPack enemies of one speed, the first of the list  *)
(* ahead: the last has just entered the path and the i-th from the end has  *)
(* walked i * i frames of MAX_DELTA_TIME.  The frames come MAX_DELTA_TIME   *)
(* or more apart.                                                           *)
(***************************************************************************)
InitVolley ==
  \E v \in { 4, 7, 20 }, n \in 1 .. MaxPack, id \in { "drone", "sprinkler" },
     spot \in { [x |-> 20, y |-> 250], [x |-> 20, y |-> 260], [x |-> 60, y |-> 250] } :
    StartIn([startNextWave(
               placeTower(selectTowerToPlace(startGame(Fresh), id), spot.x, spot.y))
             EXCEPT !.spawnQueue = << >>,
                    !.en = [ i \in 1 .. n |->
                               Walk(NewEnemy(ChaseData(v)),
                                    [ j \in 1 .. (n - i) * (n - i) |-> MAX_DELTA_TIME ]) ],
                    !.enemies = [ i \in 1 .. n |-> i ]])

SpecVolley == InitVolley /\ [][NextChase]_vars

(***************************************************************************)
(* Buffs on their own: a game whose first towers were placed on sites of    *)
(* BuffSites in any order, with money for all of them; towers are then     *)
(* upgraded and sold.                                                      *)
(***************************************************************************)
\* Four free sites: the first is 60 px from the second, exactly 100 px from the
\* third and far from the fourth.
BuffSites ==
  { [x |-> 100, y |-> 300], [x |-> 100, y |-> 360], [x |-> 200, y |-> 300],
    [x |-> 100, y |-> 520] }

BuffMoney == 500

Layouts ==
  UNION { [ 1 .. n -> [ id : { "greenhouse", "drone", "sensor" }, site : BuffSites ] ] : n \in 1 .. MaxLayout }

\* The towers of a layout are selected and placed one after the other.
RECURSIVE BuildLayout(_, _)
BuildLayout(s, layout) ==
  IF layout = << >> THEN s
  ELSE BuildLayout(
         placeTower(selectTowerToPlace(s, Head(layout).id),
                    Head(layout).site.x, Head(layout).site.y),
         Tail(layout))

InitBuff ==
  \E layout \in Layouts :
    StartIn(BuildLayout(
              startGame([Fresh EXCEPT !.money = BuffMoney,
                                      !.gameStats.moneyEarned = BuffMoney]),
              layout))

NextBuff ==
  \/ UpgradeTower
  \/ SellTower

SpecBuff == InitBuff /\ [][NextBuff]_vars

(***************************************************************************)
(* Infections: supports, sensors and drones are placed and sold while wave *)
(* 1 is played; towers are infected, clicked and auto-cured.               *)
(***************************************************************************)
InfectionSelect == SelectFrom({ "greenhouse", "sensor", "drone" })

NextInfection ==
  \/ StartGame
  \/ StartNextWave
  \/ InfectionSelect
  \/ PlaceTower
  \/ SellTower
  \/ Frame
  \/ TryClickCure
  \/ AutoCureFires

SpecInfection == Init /\ [][NextInfection]_vars

(***************************************************************************)
(* Immunity: supports, sensors and drones are placed while wave 1 is       *)
(* played and the infection ticks; the player right-clicks towers and the  *)
(* auto-cure timeouts fire.                                                *)
(***************************************************************************)
NextImmune ==
  \/ StartGame
  \/ StartNextWave
  \/ InfectionSelect
  \/ PlaceTower
  \/ Frame
  \/ TryClickCure
  \/ AutoCureFires

SpecImmune == Init /\ [][NextImmune]_vars

(***************************************************************************)
(* Tower stats and the order of a tick.                                    *)
(***************************************************************************)

\* What tower u's stats are when recomputed against the whole tower list: the
\* level's base stats, times the buffs of the supports covering it, times the
\* infection debuff.
ExpectedStats(u) == applyStats(tw, u, towers)[u].stats

\* A support of the tower list whose base range covers tower u.
Covered(u) ==
  \E v \in Range(towers) :
    /\ v # u
    /\ tw[v].type = "support"
    /\ IsInRange(tw[u], tw[v], tw[v].baseStats.range)

\* C1: between two handlers, the stats of every tower of the tower list are its
\* level's base stats multiplied by the buffs of every support covering it and
\* by the infection debuff if it is infected.
C1_StatsAreBuffedAndDebuffed ==
  \A u \in Range(towers) : tw[u].stats = ExpectedStats(u)

\* The state the infection tick leaves: an infected combat tower in the range of
\* a support, whose stats lack the support's buff.
C1_InfectedLosesBuff ==
  \E u \in Range(towers) :
    /\ IsInfected(tw[u])
    /\ Covered(u)
    /\ tw[u].stats # ExpectedStats(u)
    /\ tw[u].stats = applyInfectionDebuff(tw[u], tw[u].baseStats)

\* C2: an update of a wave in play runs spawn draining, the tower updates, the
\* projectile resolution, the enemy updates, the removal of dead and finished
\* enemies, and the infection tick last.
C2_InfectionTickLast ==
  "spawn" \in Range(tickLog) =>
    tickLog = << "spawn", "towers", "projectiles", "enemies", "removal", "infection" >>

\* An update of a wave in play that ran the infection tick before everything else.
C2_InfectionTickFirst ==
  tickLog = << "infection", "spawn", "towers", "projectiles", "enemies", "removal" >>

(***************************************************************************)
(* The wave scheduler.                                                     *)
(***************************************************************************)

\* An entry of the spawn queue whose offset the wave clock has reached.
Overdue(k) == spawnQueue[k].spawnTime <= spawnTimer

\* C3: once WaveManager.update has run for a wave (its clock has advanced), no
\* entry left in the spawn queue has an offset the clock has reached.
C3_NoDueEntryRemains ==
  spawnTimer > 0 => \A k \in DOMAIN spawnQueue : ~Overdue(k)

\* A wave of several groups after an update: a due entry waits behind the head of
\* the queue, which is not due.
C3_DueEntryBehindHead ==
  /\ spawnTimer > 0
  /\ spawnQueue # << >>
  /\ ~Overdue(1)
  /\ \E k \in DOMAIN spawnQueue : Overdue(k)

\* C4: waveInProgress becomes false only in a step that leaves the spawn queue and
\* the enemy list empty, and as long as an entry is scheduled or an enemy is in
\* play the wave is in progress.
C4_CompleteOnlyWhenEmpty ==
  /\ [](spawnQueue # << >> \/ enemies # << >> => waveInProgress)
  /\ [][waveInProgress /\ ~waveInProgress' =>
          /\ spawnQueue' = << >>
          /\ enemies' = << >>
          /\ "removal" \in Range(tickLog')]_vars

\* A wave that spawned enemies has been reported complete.
C4_WaveReportedComplete ==
  /\ currentWave >= 1
  /\ ~waveInProgress
  /\ Len(en) > 0
  /\ spawnQueue = << >>
  /\ enemies = << >>

\* The wave being played is made of a single composition group.
SingleGroup ==
  /\ currentWave \in DOMAIN waves
  /\ Len(waves[currentWave].composition) = 1

RECURSIVE CountOf(_)
CountOf(composition) ==
  IF composition = << >> THEN 0
  ELSE Head(composition).count + CountOf(Tail(composition))

\* The enemies scheduled by the waves before wave n.
RECURSIVE ScheduledBefore(_)
ScheduledBefore(n) ==
  IF n <= 1 THEN 0 ELSE CountOf(waves[n - 1].composition) + ScheduledBefore(n - 1)

\* The entries of group g that are due once the wave clock shows clock: none
\* before the first update, then every k in 0 .. count-1 with k x interval <= clock.
DueBy(g, clock) ==
  IF clock = 0 THEN 0
  ELSE Cardinality({ k \in 0 .. g.count - 1 : k * g.interval_ms <= clock })

\* C5: in a wave of one group {count n, interval i} the enemies spawned so far are
\* exactly the k in 0 .. n-1 whose offset k x i the wave clock has reached in an
\* update, the others are still queued; so the k-th is spawned in the first update
\* whose clock is at least k x i, never before, and no more than n are spawned.
C5_SingleGroupSchedule ==
  SingleGroup =>
    LET g == waves[currentWave].composition[1]
        spawned == Len(en) - ScheduledBefore(currentWave)
    IN  /\ spawned = DueBy(g, spawnTimer)
        /\ Len(spawnQueue) = g.count - spawned

\* Count 3, interval 500: the wave clock passed 0.5 s and not yet 1.0 s and two
\* enemies are spawned; the third one is still queued.
C5_ThirdStillQueued ==
  /\ SingleGroup
  /\ waves[currentWave].composition[1].count = 3
  /\ waves[currentWave].composition[1].interval_ms = 500
  /\ spawnTimer >= 500
  /\ spawnTimer < 1000
  /\ Len(en) = 2
  /\ Len(spawnQueue) = 1

(***************************************************************************)
(* Targeting.                                                              *)
(***************************************************************************)

\* Enemy a comes strictly before enemy b for tower t: greater pathIndex, then
\* higher hp, then smaller distance to the tower.
Precedes(t, a, b) ==
  \/ a.pathIndex > b.pathIndex
  \/ a.pathIndex = b.pathIndex /\ a.hp > b.hp
  \/ a.pathIndex = b.pathIndex /\ a.hp = b.hp /\ Dist2(t, a) < Dist2(t, b)

\* Enemies a and b tie on the three keys.
FullTie(t, a, b) == ~Precedes(t, a, b) /\ ~Precedes(t, b, a)

\* The living enemies of the list in the range of tower u.
Candidates(u) ==
  { i \in Range(enemies) : isAlive(en[i]) /\ IsInRange(tw[u], en[i], tw[u].stats.range) }

\* The enemy lists holding the same enemies in another order.
Reorderings ==
  { p \in [ DOMAIN enemies -> Range(enemies) ] : Range(p) = Range(enemies) }

\* Tower 1 has just fired its single-target projectile at enemy i.
Fired(i) == Len(projectiles) = 1 /\ projectiles[1].target = i

\* C6 as stated: the enemy fired at comes strictly before every other candidate,
\* and every order of the enemy list yields the same target.
C6_UniqueMaximum ==
  \A i \in Range(enemies) :
    Fired(i) =>
      /\ i \in Candidates(1)
      /\ \A j \in Candidates(1) \ {i} : Precedes(tw[1], en[i], en[j])
      /\ \A p \in Reorderings :
            selectTarget(World, 1, findTargets(World, 1, p)) = i

\* C6 amended: the enemy fired at is a candidate that no candidate precedes;
\* among the candidates tying with it on the three keys it is the first of the
\* enemy list; and when no other candidate ties with it, it precedes every other
\* candidate and every order of the enemy list yields it.
C6_MaximumFirstOfTies ==
  \A k \in DOMAIN enemies :
    Fired(enemies[k]) =>
      LET i == enemies[k]
          ties == { j \in Candidates(1) \ {i} : FullTie(tw[1], en[i], en[j]) }
      IN  /\ i \in Candidates(1)
          /\ \A j \in Candidates(1) : ~Precedes(tw[1], en[j], en[i])
          /\ \A m \in 1 .. k - 1 : enemies[m] \notin ties
          /\ ties = {} =>
                /\ \A j \in Candidates(1) \ {i} : Precedes(tw[1], en[i], en[j])
                /\ \A p \in Reorderings :
                      selectTarget(World, 1, findTargets(World, 1, p)) = i

\* The drone fired at the second enemy of the list, which has the pathIndex and
\* the hp of the first one and is nearer.
C6_NearerOfEqualsChosen ==
  /\ Len(enemies) = 2
  /\ Fired(enemies[2])
  /\ enemies[1] \in Candidates(1)
  /\ en[enemies[1]].pathIndex = en[enemies[2]].pathIndex
  /\ en[enemies[1]].hp = en[enemies[2]].hp
  /\ Dist2(tw[1], en[enemies[2]]) < Dist2(tw[1], en[enemies[1]])

(***************************************************************************)
(* Status effects.                                                         *)
(***************************************************************************)

\* The slow {value, duration} is stronger than the slow enemy e carries: its value
\* is higher or its duration is longer.
Stronger(e, value, duration) ==
  /\ HasEffect(e, "slow")
  /\ \/ value > e.statusEffects["slow"].value
     \/ duration > e.statusEffects["slow"].duration

\* C7: a step that applies to the enemy a slow stronger than the one it carries
\* leaves its speed no greater than it was.
C7_StrongerSlowNeverSpeedsUp ==
  [][\A value \in SlowValues, duration \in SlowDurations :
       /\ Stronger(en[1], value, duration)
       /\ en' = [en EXCEPT ![1] = applyStatusEffect(@, "slow", value, duration)]
       => en'[1].speed <= en[1].speed]_vars

(***************************************************************************)
(* Infections and cures.                                                   *)
(***************************************************************************)

\* The pending timeouts without the k-th one.
WithoutTimer(k) == SubSeq(timers, 1, k - 1) \o SubSeq(timers, k + 1, Len(timers))

\* The tower of the k-th pending timeout was sold or is no longer infected.
Stale(k) ==
  \/ timers[k].tower \notin Range(towers)
  \/ ~IsInfected(tw[timers[k].tower])

\* C8: a step in which the auto-cure timeout of a sold or already cured tower
\* fires changes no tower (infection record, stats) and no statistic.
C8_StaleAutoCureIsNoOp ==
  [][\A k \in DOMAIN timers :
       Stale(k) /\ timers' = WithoutTimer(k) => tw' = tw /\ gameStats' = gameStats]_vars

\* An auto-cure is pending for a tower that was sold while infected.
C8_TimerForSoldInfectedTower ==
  \E k \in DOMAIN timers :
    /\ timers[k].tower \notin Range(towers)
    /\ IsInfected(tw[timers[k].tower])

\* The k-th pending timeout was set for another infection than the one its tower
\* carries now.
LaterInfection(k) ==
  /\ IsInfected(tw[timers[k].tower])
  /\ tw[timers[k].tower].infection[1].obj # timers[k].seen

\* C9: a step in which an auto-cure timeout fires whose tower carries a later
\* infection than the one the timeout was set for leaves that infection in place.
C9_TimerSparesLaterInfection ==
  [][\A k \in DOMAIN timers :
       LaterInfection(k) /\ timers' = WithoutTimer(k) =>
         tw'[timers[k].tower].infection = tw[timers[k].tower].infection]_vars

\* An auto-cure is pending for a tower of the tower list that was cured and
\* infected again since the timeout was set.
C9_TimerOutlivedItsInfection ==
  \E k \in DOMAIN timers :
    /\ timers[k].tower \in Range(towers)
    /\ LaterInfection(k)

\* The state after a cure click on the site of tower u.
Clicked(u) == tryClickCure(World, tw[u].x, tw[u].y)

\* C10: an infected tower has had fewer cure clicks than it requires; a cure click
\* on it that is not the last one required only counts, and the one that makes the
\* count reach cureRequired clears the infection, recomputes the stats without the
\* debuff and counts a cure; a cure click on a tower that is not infected changes nothing.
C10_ClearedOnLastClickOnly ==
  \A u \in Range(towers) :
    IF IsInfected(tw[u])
    THEN LET inf == tw[u].infection[1]
         IN  /\ inf.cureClicks < inf.cureRequired
             /\ IF inf.cureClicks + 1 < inf.cureRequired
                THEN Clicked(u) =
                       [World EXCEPT !.tw[u].infection[1].cureClicks = @ + 1]
                ELSE /\ ~IsInfected(Clicked(u).tw[u])
                     /\ Clicked(u).tw[u].stats =
                          applyStats([tw EXCEPT ![u].infection = NoInfection],
                                     u, towers)[u].stats
                     /\ Clicked(u).gameStats.infectionsCured =
                          gameStats.infectionsCured + 1
    ELSE Clicked(u) = World

\* A tower was cured by clicks (no sensor was ever placed) and is not infected.
C10_CuredByClicks ==
  /\ gameStats.infectionsCured > 0
  /\ \A u \in DOMAIN tw : tw[u].type # "support_sensor"
  /\ \E u \in Range(towers) :
        /\ tw[u].type # "support"
        /\ ~IsInfected(tw[u])

(***************************************************************************)
(* Projectiles and enemies.                                                *)
(***************************************************************************)

\* The time steps an update of a frame of FrameGaps runs with.
FrameDts == { ValidDelta(Min(gap, MAX_DELTA_TIME)) : gap \in FrameGaps }

\* Projectile k is a single-target projectile whose enemy left the enemy list.
TargetGone(k) ==
  /\ projectiles[k].target # 0
  /\ projectiles[k].target \notin Range(enemies)

\* The update of projectile k only aged and deactivated it: no enemy and no
\* statistic changed.
OnlyDeactivated(k, dt) ==
  projectileUpdate(World, k, dt) =
    [World EXCEPT !.projectiles[k].lifetime = @ + dt, !.projectiles[k].active = FALSE]

\* C11: the next update of a single-target projectile whose enemy left the enemy
\* list (killed, or removed at the end of the path with hp > 0) deactivates it and
\* changes nothing else: no damage is dealt and damageDealt is not increased.
C11_GoneTargetDeactivates ==
  \A k \in DOMAIN projectiles, dt \in FrameDts : TargetGone(k) => OnlyDeactivated(k, dt)

\* A projectile in flight is bound to an enemy that was removed at the end of the
\* path with hp > 0.
C11_BoundToEscapedEnemy ==
  \E k \in DOMAIN projectiles :
    /\ TargetGone(k)
    /\ en[projectiles[k].target].reachedEnd
    /\ isAlive(en[projectiles[k].target])

\* The enemies that leave the enemy list in the step, those of them that reached
\* the end of the path and those that did not (they were killed).
Left == { i \in Range(enemies) : i \notin Range(enemies') }
Escaped == { i \in Left : en'[i].reachedEnd }
Killed == { i \in Left : ~en'[i].reachedEnd }

\* The rewards of the enemies of set S.
RECURSIVE RewardSum(_)
RewardSum(S) ==
  IF S = {} THEN 0
  ELSE LET i == CHOOSE j \in S : TRUE IN en[i].reward + RewardSum(S \ {i})

\* The income of the economy towers that pay out in the step: a tower that pays
\* out restarts its cooldown.
RECURSIVE IncomeSum(_)
IncomeSum(S) ==
  IF S = {} THEN 0
  ELSE LET u == CHOOSE v \in S : TRUE IN tw[u].stats.income + IncomeSum(S \ {u})

EcoIncome ==
  IncomeSum({ u \in Range(towers) : tw[u].type = "eco" /\ tw'[u].cooldown > tw[u].cooldown })

\* What C12 says of every enemy whatever the lives: hp stays within 0 .. maxHp, the
\* enemy list holds an enemy once and only living enemies on the path, a removed
\* enemy never comes back, an enemy leaves the list only dead or at the end of the
\* path, and the kills of a step are counted and rewarded once each.
EnemyLifecycle ==
  /\ [](\A i \in DOMAIN en : 0 <= en[i].hp /\ en[i].hp <= en[i].maxHp)
  /\ [](\A j, k \in DOMAIN enemies : enemies[j] = enemies[k] => j = k)
  /\ [](\A i \in Range(enemies) : isAlive(en[i]) /\ ~en[i].reachedEnd)
  /\ [][/\ \A i \in DOMAIN en : i \notin Range(enemies) => i \notin Range(enemies')
        /\ \A i \in Left : en'[i].reachedEnd \/ en'[i].hp = 0
        /\ gameStats'.enemiesKilled = gameStats.enemiesKilled + Cardinality(Killed)
        /\ gameStats'.moneyEarned =
             gameStats.moneyEarned + RewardSum(Killed) + EcoIncome]_vars

\* C12 as stated: every enemy leaves the enemy list once, killed (reward credited
\* once, no life lost) or at the end of the path (no reward), and every enemy that
\* leaves at the end of the path costs exactly one life.
C12_EscapeCostsExactlyOneLife ==
  /\ EnemyLifecycle
  /\ [][lives' = lives - Cardinality(Escaped)]_vars

\* C12 amended: as above, except that an enemy leaving at the end of the path
\* costs one life only while a life is left: lives never go below 0.
C12_EscapeCostsOneLifeIfLeft ==
  /\ EnemyLifecycle
  /\ [][lives' = Max(0, lives - Cardinality(Escaped))]_vars

\* Enemies were killed and rewarded, and an enemy escaped at the cost of a life.
C12_KilledAndEscaped ==
  /\ gameStats.enemiesKilled > 0
  /\ lives < GameSettings.start_lives
  /\ \E i \in DOMAIN en : i \notin Range(enemies) /\ en[i].reachedEnd

(***************************************************************************)
(* The shop.                                                               *)
(***************************************************************************)

\* The state after the player sold tower u.
Sold(u) == sellTower(World, u)

\* Tower u is the only support of the tower list whose base range covers tower v.
OnlyCover(u, v) ==
  /\ tw[u].type = "support"
  /\ tw[v].type \notin { "support", "support_sensor" }
  /\ IsInRange(tw[v], tw[u], tw[u].baseStats.range)
  /\ \A w \in Range(towers) \ { u, v } :
        ~(tw[w].type = "support" /\ IsInRange(tw[v], tw[w], tw[w].baseStats.range))

\* Selling tower u removes it from the tower list and recomputes the others
\* without it.
SoldIsRemoved(u) ==
  /\ Sold(u).towers = SelectSeq(towers, LAMBDA v : v # u)
  /\ \A v \in Range(Sold(u).towers) :
        /\ Sold(u).tw[v].buffedStats =
             calculateBuffedStats(tw, v, LevelData(tw[v]), Sold(u).towers)
        /\ OnlyCover(u, v) => Sold(u).tw[v].buffedStats = Sold(u).tw[v].baseStats

\* A tower that is off the tower list stays off it, is never updated again (so it
\* never fires), and the buffed stats of a listed tower come from listed supports.
SoldIsOut ==
  /\ [](\A v \in Range(towers) :
          tw[v].buffedStats \in
            { tw[v].baseStats, calculateBuffedStats(tw, v, tw[v].baseStats, towers) })
  /\ [][\A u \in DOMAIN tw :
          u \notin Range(towers) =>
            u \notin Range(towers') /\ tw'[u].cooldown = tw[u].cooldown]_vars

\* C13: selling a placed tower increases money by exactly floor(totalCost x 0.7),
\* removes the tower from the tower list and recomputes the remaining towers'
\* stats in the same command; from then on it buffs no tower and fires nothing.
C13_SellRefundsSeventyPercent ==
  /\ [](\A u \in Range(towers) :
          /\ Sold(u).money = money + (tw[u].totalCost * SELL_REFUND_PCT) \div 100
          /\ SoldIsRemoved(u))
  /\ SoldIsOut

\* A tower of total cost 90 was sold.
C13_SoldForNinety ==
  \E u \in DOMAIN tw : u \notin Range(towers) /\ tw[u].totalCost = 90

(***************************************************************************)
(* Movement.                                                               *)
(***************************************************************************)

\* The path progress of enemy b is at least that of enemy a: the pairs
\* (pathIndex, distanceAlongSegment) compared lexicographically.
NotBehind(a, b) ==
  \/ b.pathIndex > a.pathIndex
  \/ b.pathIndex = a.pathIndex /\ b.distanceAlongSegment >= a.distanceAlongSegment

\* C14: no step decreases an enemy's path progress (pathIndex, then
\* distanceAlongSegment), whatever the time step in (0, 0.1] and whatever slows
\* were applied before it.
C14_ProgressNeverDecreases ==
  [][\A i \in DOMAIN en : NotBehind(en[i], en'[i])]_vars

\* A slowed enemy is part-way along a later segment of the path.
C14_SlowedEnemyAdvanced ==
  \E i \in DOMAIN en :
    /\ HasEffect(en[i], "slow")
    /\ en[i].speed < en[i].baseSpeed
    /\ en[i].pathIndex > 0
    /\ en[i].distanceAlongSegment > 0

\* C15: every projectile of the projectile list is active and at most 5 s old; the
\* update that takes a projectile's lifetime over the maximum only deactivates it
\* (no move, no damage, no statistic), and the projectile list that tick leaves
\* holds no projectile older than the maximum.
C15_ExpiredProjectileRemoved ==
  /\ \A k \in DOMAIN projectiles :
        projectiles[k].active /\ projectiles[k].lifetime <= MAX_LIFETIME
  /\ \A k \in DOMAIN projectiles, dt \in FrameDts :
        projectiles[k].lifetime + dt > MAX_LIFETIME =>
          /\ OnlyDeactivated(k, dt)
          /\ \A p \in Range(updateProjectiles(World, dt).projectiles) :
                p.active /\ p.lifetime <= MAX_LIFETIME

\* A projectile in flight has reached the maximum lifetime short of its target: its
\* next update retires it.
C15_ProjectileAtTheCap ==
  \E k \in DOMAIN projectiles :
    /\ projectiles[k].lifetime = MAX_LIFETIME
    /\ ~Arrived(projectiles[k], en[projectiles[k].target])

\* The canvas positions of a placement click: the spots, and two positions less
\* than 20 px from the canvas border.
PlaceClicks == Spots \cup { [x |-> 10, y |-> 250], [x |-> 20, y |-> 590] }

\* The position lies outside the canvas less its 20 px margin.
OutOfBounds(pos) ==
  \/ pos.x < 20 \/ pos.x > CANVAS_WIDTH - 20
  \/ pos.y < 20 \/ pos.y > CANVAS_HEIGHT - 20

\* The position is less than 45 px from a segment of the path.
NearPath(pos) ==
  \E i \in 1 .. Len(path) - 1 : isPointNearLine(pos, path[i], path[i + 1], 45)

\* The position is less than 40 px from a tower of the tower list.
NearTower(pos) == \E u \in Range(towers) : Dist2(pos, tw[u]) < Sq(40)

\* The tower type being placed costs more than the player has.
TooDear == TowerData(placingTowerType).cost_place > money

\* C16: while a tower type is being placed, a placement click that is out of
\* bounds, within the path clearance, too close to a tower or not affordable
\* changes nothing (money, tower list, every tower's stats, towersPlaced); any
\* other click buys and places the tower.
C16_RejectedPlacementMutatesNothing ==
  placingTowerType # "" =>
    \A pos \in PlaceClicks :
      LET placed == placeTower(World, pos.x, pos.y)
      IN  IF OutOfBounds(pos) \/ NearPath(pos) \/ NearTower(pos) \/ TooDear
          THEN placed = World
          ELSE /\ placed.money = money - TowerData(placingTowerType).cost_place
               /\ Len(placed.towers) = Len(towers) + 1
               /\ placed.gameStats.towersPlaced = gameStats.towersPlaced + 1

\* A tower type is being placed that has become too dear since it was selected,
\* next to a tower that stands on one of the spots.
C16_PlacementToBeRejected ==
  /\ placingTowerType # ""
  /\ TooDear
  /\ \E pos \in PlaceClicks : NearTower(pos)
  /\ \E pos \in PlaceClicks : ~OutOfBounds(pos) /\ ~NearPath(pos) /\ ~NearTower(pos)

\* Tower u is at its last level, or its next level costs more than the player has.
NoUpgrade(u) ==
  \/ tw[u].level >= Len(TowerData(tw[u].id).upgrades)
  \/ TowerData(tw[u].id).upgrades[tw[u].level + 1].cost > money

\* C17: an upgrade command for a tower at its last level, or whose next level
\* costs more than the player has, changes nothing (level, totalCost, stats of
\* every tower, money, towersUpgraded); any other upgrade command is paid for and
\* raises the level by one.
C17_RejectedUpgradeMutatesNothing ==
  \A u \in Range(towers) :
    LET upgraded == upgradeTower(World, u)
    IN  IF NoUpgrade(u) THEN upgraded = World
        ELSE LET cost == TowerData(tw[u].id).upgrades[tw[u].level + 1].cost
             IN  /\ upgraded.money = money - cost
                 /\ upgraded.tw[u].level = tw[u].level + 1
                 /\ upgraded.tw[u].totalCost = tw[u].totalCost + cost
                 /\ upgraded.gameStats.towersUpgraded = gameStats.towersUpgraded + 1

\* A tower that has a next level which the player cannot pay, beside a tower at
\* its last level.
C17_UpgradeToBeRejected ==
  /\ \E u \in Range(towers) :
        /\ tw[u].level < Len(TowerData(tw[u].id).upgrades)
        /\ TowerData(tw[u].id).upgrades[tw[u].level + 1].cost > money
  /\ \E u \in Range(towers) :
        tw[u].level > 0 /\ tw[u].level >= Len(TowerData(tw[u].id).upgrades)

\* The prices of the shop: every placement cost and every upgrade cost.
Prices ==
  { TowerConfig[i].cost_place : i \in DOMAIN TowerConfig }
    \cup UNION { { TowerConfig[i].upgrades[l].cost : l \in DOMAIN TowerConfig[i].upgrades } :
                 i \in DOMAIN TowerConfig }

\* C19: purchase(cost) with money < cost fails and changes nothing, with
\* money >= cost it succeeds and deducts exactly cost; and money is never
\* negative, whatever was placed, upgraded, sold and earned.
C19_PurchaseNeverOverdraws ==
  /\ money >= 0
  /\ \A cost \in Prices :
        IF money < cost
        THEN ~PurchaseOk(World, cost) /\ purchase(World, cost) = World
        ELSE PurchaseOk(World, cost)
               /\ purchase(World, cost) = [World EXCEPT !.money = money - cost]

\* After placing, upgrading and selling, the player has less than the lowest
\* price and more than nothing.
C19_ShortOfEveryPrice ==
  /\ gameStats.towersPlaced > 0
  /\ gameStats.towersUpgraded > 0
  /\ \E u \in DOMAIN tw : u \notin Range(towers)
  /\ money > 0
  /\ \A cost \in Prices : money < cost

(***************************************************************************)
(* Starting a wave.                                                        *)
(***************************************************************************)

\* C18: a start-wave command while a wave is played, paused or not, changes
\* nothing (currentWave, spawn queue, spawn clock, enemy list); currentWave
\* changes and a wave comes into progress only in a step taken from the
\* wave-break state, which raises currentWave by exactly 1.
C18_StartWaveOnlyFromBreak ==
  /\ [](currentState = "playing" => startNextWave(World) = World)
  /\ [][currentWave' # currentWave \/ (waveInProgress' /\ ~waveInProgress) =>
          /\ currentState = "wave_break"
          /\ currentWave' = currentWave + 1]_vars

\* A wave is being played, is paused, and has enemies in play and in the queue.
C18_PausedWaveInProgress ==
  /\ currentState = "playing"
  /\ isPaused
  /\ waveInProgress
  /\ spawnQueue # << >>
  /\ enemies # << >>

(***************************************************************************)
(* Buffs.                                                                  *)
(***************************************************************************)

\* The supports of the tower list, other than u, whose base range contains u.
Covering(u) ==
  { v \in Range(towers) \ { u } :
      /\ tw[v].type = "support"
      /\ Dist2(tw[u], tw[v]) <= Sq(LevelData(tw[v]).range) }

\* The product over the supports of S of (100 - buff_firerate_pct), of
\* (100 + buff_range_pct), and of 100.
RECURSIVE BuffProduct(_)
BuffProduct(S) ==
  IF S = {} THEN [ f |-> 1, r |-> 1, d |-> 1 ]
  ELSE LET v == CHOOSE w \in S : TRUE
           rest == BuffProduct(S \ { v })
       IN  [ f |-> rest.f * (100 - LevelData(tw[v]).buff_firerate_pct),
             r |-> rest.r * (100 + LevelData(tw[v]).buff_range_pct),
             d |-> rest.d * 100 ]

C21_RecomputeIsIdempotent ==
  LET once == RecomputeAll(tw, towers)
      twice == RecomputeAll(once, towers)
  IN  \A u \in DOMAIN tw :
        /\ twice[u].baseStats = once[u].baseStats
        /\ twice[u].buffedStats = once[u].buffedStats
        /\ twice[u].stats = once[u].stats

\* An infected drone under a greenhouse whose stats a recompute would change.
C21_RecomputeWouldChangeInfected ==
  \E u \in Range(towers) :
    /\ IsInfected(tw[u])
    /\ tw[u].type = "single"
    /\ RecomputeAll(tw, towers)[u].stats # tw[u].stats

(***************************************************************************)
(* Sensors and infections.                                                 *)
(***************************************************************************)

\* C22: no support_sensor tower ever carries an infection record: none does in
\* a reachable state, and neither a direct infect() call on a sensor nor an
\* infection tick, whatever the random draw, gives it one.
C22_SensorsAreNeverInfected ==
  \A u \in DOMAIN tw :
    tw[u].type = "support_sensor" =>
      /\ ~IsInfected(tw[u])
      /\ ~IsInfected(infect(World, u).tw[u])
      /\ \A rnd \in 0 .. MaxPlaced - 1 :
           ~IsInfected(infectRandomTower(World, rnd).tw[u])

\* The infection timer has just fired in a wave in which every placed tower is
\* a sensor: the tick found no eligible tower and infected none.
C22_TickFoundOnlySensors ==
  /\ currentState = "playing"
  /\ frames >= 2
  /\ infTimer = 0
  /\ towers # << >>
  /\ \A u \in Range(towers) : tw[u].type = "support_sensor"
  /\ gameStats.infectionsTotal = 0

(***************************************************************************)
(* Speed and status effects.                                               *)
(***************************************************************************)

\* C23: every status effect an enemy carries has a remaining duration above 0
\* (an effect that decayed to 0 or below was removed); an enemy without a slow
\* moves at baseSpeed exactly, and an enemy with a slow at
\* baseSpeed x (1 - slow value).
C23_SpeedFollowsTheSlow ==
  \A i \in DOMAIN en :
    LET e == en[i]
    IN  /\ \A k \in DOMAIN e.statusEffects : e.statusEffects[k].duration > 0
        /\ ~HasEffect(e, "slow") => e.speed = e.baseSpeed
        /\ HasEffect(e, "slow") =>
             e.speed * 100 = e.baseSpeed * (100 - e.statusEffects["slow"].value)

\* A slowed enemy whose slow has decayed to its last 50 ms: the next decay
\* removes it and the enemy is back at baseSpeed.
C23_SlowOnItsLastTick ==
  /\ HasEffect(en[1], "slow")
  /\ en[1].statusEffects["slow"].duration <= 50
  /\ en[1].speed < en[1].baseSpeed
  /\ updateStatusEffects(en[1], 50).statusEffects = << >>
  /\ updateStatusEffects(en[1], 50).speed = en[1].baseSpeed

(***************************************************************************)
(* The delta time of a frame.                                              *)
(***************************************************************************)

\* Gaps between two frame timestamps, in milliseconds: not a number, negative,
\* zero, within the cap, at the cap and above it.
LoopGaps == { NaN, -16, 0, 1, 16, 100, 101, 250, 5000 }

\* The delta times the subsystems are seen to receive in the frame that comes gap
\* after the last one: the advance of the spawn clock of a wave with queued
\* entries, the advance of the infection timer short of its period, and the
\* decrease of the cooldown of every tower that is more than a frame from ready.
Handed(gap) ==
  LET s1 == gameLoop(World, gap, 0)
  IN  IF isPaused THEN {}
      ELSE
        { s1.spawnTimer - spawnTimer :
            b \in { b \in { TRUE } : currentState = "playing" /\ spawnQueue # << >> } }
        \cup
        { s1.infTimer - infTimer :
            b \in { b \in { TRUE } : /\ currentState = "playing"
                                     /\ infEnabled /\ waveInProgress
                                     /\ s1.infTimer # 0 } }
        \cup
        { tw[u].cooldown - s1.tw[u].cooldown :
            u \in { u \in Range(towers) : /\ currentState \in { "playing", "wave_break" }
                                          /\ tw[u].cooldown > MAX_DELTA_TIME } }

\* C24: every delta time handed to the subsystem updates is above 0 and at most
\* 0.1 s: a gap above 0.1 s is handed on as 0.1 s, a gap of 0, below 0 or not a
\* number as the nominal step of 0.016 s, and any other gap as it is.
C24_DeltaTimeIsClampedAndValid ==
  \A gap \in LoopGaps :
    \A dt \in Handed(gap) :
      /\ 0 < dt
      /\ dt <= MAX_DELTA_TIME
      /\ dt = IF gap = NaN \/ gap <= 0 THEN DEFAULT_DELTA_TIME
              ELSE IF gap > MAX_DELTA_TIME THEN MAX_DELTA_TIME
              ELSE gap

\* A wave in play with entries in the spawn queue, a running infection timer and a
\* tower that has fired and waits more than a frame: all three receive the delta
\* time of the next frame.
C24_AllThreeClocksRun ==
  /\ ~isPaused
  /\ currentState = "playing"
  /\ spawnQueue # << >>
  /\ \E u \in Range(towers) : tw[u].cooldown > MAX_DELTA_TIME
  /\ \A gap \in LoopGaps : Cardinality(Handed(gap)) = 1
  /\ gameLoop(World, 0, 0).infTimer = infTimer + DEFAULT_DELTA_TIME

(***************************************************************************)
(* Pause.                                                                  *)
(***************************************************************************)

\* C25: while the game is paused a frame changes nothing of the simulation,
\* whatever its gap: the spawn clock and queue, the infection timer, the towers
\* and their cooldowns, the projectiles, the enemies and their status effects,
\* money, lives and the statistics are as before gameLoop; the game is paused
\* only while a wave is played, and togglePause does nothing in any other state.
C25_PausedFrameChangesNothing ==
  /\ isPaused =>
       /\ currentState = "playing"
       /\ \A gap \in LoopGaps, rnd \in 0 .. MaxPlaced - 1 :
            gameLoop(World, gap, rnd) = World
  /\ currentState # "playing" => togglePause(World) = World

\* The game is paused with an enemy on the path, a projectile in flight, a tower
\* on cooldown and entries left in the spawn queue.
C25_PausedInTheMiddleOfAWave ==
  /\ isPaused
  /\ enemies # << >>
  /\ projectiles # << >>
  /\ spawnQueue # << >>
  /\ \E u \in Range(towers) : tw[u].cooldown > 0

(***************************************************************************)
(* Levels and costs.                                                       *)
(***************************************************************************)

\* The sum of the costs of the first n upgrades of tower type id.
RECURSIVE UpgradeCosts(_, _)
UpgradeCosts(id, n) ==
  IF n = 0 THEN 0 ELSE UpgradeCosts(id, n - 1) + TowerData(id).upgrades[n].cost

\* Every tower's level is within its upgrade table and its totalCost is the
\* placement cost plus the costs of the upgrades it took.
LevelAndCost ==
  \A u \in DOMAIN tw :
    /\ 0 <= tw[u].level
    /\ tw[u].level <= Len(TowerData(tw[u].id).upgrades)
    /\ tw[u].totalCost = TowerData(tw[u].id).cost_place + UpgradeCosts(tw[u].id, tw[u].level)

\* An upgradeTower command that goes through raises the level of the tower by 1,
\* on the same object: the heap and the tower list are as long as before and the
\* tower keeps its type, its place, its cooldown and its infection.
UpgradeInPlace ==
  \A u \in Range(towers) :
    LET s1 == upgradeTower(World, u)
    IN  s1 # World =>
          /\ s1.tw[u].level = tw[u].level + 1
          /\ Len(s1.tw) = Len(tw)
          /\ s1.towers = towers
          /\ [s1.tw[u] EXCEPT !.level = tw[u].level, !.totalCost = tw[u].totalCost,
                              !.baseStats = tw[u].baseStats,
                              !.buffedStats = tw[u].buffedStats,
                              !.stats = tw[u].stats] = tw[u]

\* C26: for every tower, 0 <= level <= length of its upgrade table and
\* totalCost = cost_place + the costs of upgrades 0 .. level-1; totalCost never
\* decreases and a level changes by one upgrade at a time; a successful upgrade
\* raises the level by exactly 1 on the same tower object.
C26_LevelAndTotalCost ==
  /\ [](LevelAndCost /\ UpgradeInPlace)
  /\ [][\A u \in DOMAIN tw :
          /\ u \in DOMAIN tw'
          /\ tw'[u].totalCost >= tw[u].totalCost
          /\ tw'[u].level \in { tw[u].level, tw[u].level + 1 }]_vars

\* A drone and a greenhouse, both upgraded to the end of their tables.
C26_BothUpgraded ==
  /\ \E u \in Range(towers) : tw[u].id = "drone" /\ tw[u].level = 1 /\ tw[u].totalCost = 130
  /\ \E u \in Range(towers) : tw[u].id = "greenhouse" /\ tw[u].level = 1 /\ tw[u].totalCost = 150

(***************************************************************************)
(* Game over.                                                              *)
(***************************************************************************)

\* C27: game over is terminal: once the lives are 0 the game is in the game-over
\* state, also when the enemy that took the last life was the last enemy of its
\* wave or of the final wave, and the game-over state is never left.
C27_GameOverIsTerminal ==
  /\ [](lives = 0 => currentState = "game_over")
  /\ [][currentState = "game_over" => currentState' = "game_over"]_vars

\* The last life is gone and the game is not over: the player has won.
C27_VictoryWithoutLives ==
  /\ lives = 0
  /\ currentState = "victory"
  /\ enemies = << >>

(***************************************************************************)
(* Selling twice.                                                          *)
(***************************************************************************)

\* C28: a placed tower yields at most one refund: sellTower for a tower that is
\* no longer in the tower list (it was sold) changes neither money nor the
\* money-earned statistic.
C28_SoldTowerYieldsNoRefund ==
  \A u \in DOMAIN tw \ Range(towers) :
    LET s1 == sellTower(World, u)
    IN  /\ s1.money = money
        /\ s1.gameStats.moneyEarned = gameStats.moneyEarned

\* A tower was sold, and a second sellTower for it pays its refund again while
\* the tower list stays as it is.
C28_SecondSalePaysAgain ==
  \E u \in DOMAIN tw \ Range(towers) :
    /\ sellTower(World, u).money = money + SellValue(tw[u].totalCost)
    /\ sellTower(World, u).money > money
    /\ sellTower(World, u).towers = towers

(***************************************************************************)
(* The order of the spawn queue.                                           *)
(***************************************************************************)

\* The offsets of a queue do not decrease from one entry to the next.
Ascending(queue) ==
  \A i \in 1 .. Len(queue) - 1 : queue[i].spawnTime <= queue[i + 1].spawnTime

\* C29: the spawn queue startWave builds is sorted ascending by offset, for a
\* wave of any number of composition groups; the queue only loses its head
\* afterwards, so it is sorted in every state and the enemies are created in
\* non-decreasing order of their offsets.
C29_SpawnQueueIsSorted ==
  /\ Ascending(spawnQueue)
  /\ \A n \in DOMAIN waves : Ascending(startWave(World, n).spawnQueue)

\* The wave of two groups has been started: the queue holds the two pests of
\* the first group, due at 0 and 200 ms, and behind them the boss of the second
\* group, due at 0.
C29_SecondGroupBehindFirst ==
  /\ currentState = "playing"
  /\ spawnTimer = 0
  /\ Len(spawnQueue) = 3
  /\ spawnQueue[2].spawnTime = 200
  /\ spawnQueue[3].spawnTime = 0

(***************************************************************************)
(* Firing.                                                                 *)
(***************************************************************************)

\* The towers of the list that shoot.
Offensive == { u \in Range(towers) : tw[u].type \in { "single", "single_heavy", "aoe" } }

\* The cooldown of tower u in a tick of dt, after the tick's decrement.
TickCooldown(u, dt) == IF tw[u].cooldown > 0 THEN tw[u].cooldown - dt ELSE tw[u].cooldown

\* The living enemies of the enemy list at a distance of at most stats.range.
InReach(u) ==
  { i \in Range(enemies) : en[i].hp > 0 /\ Dist2(tw[u], en[i]) <= Sq(tw[u].stats.range) }

\* C30: in a tick an offensive tower fires only if its cooldown, the tick's
\* decrement applied, is <= 0 and a living enemy is within stats.range, the
\* boundary included; firing appends exactly one projectile, which leaves from
\* the tower, and sets the cooldown to stats.firerate_s; with no candidate enemy
\* the tick changes nothing but that decrement. The tick changes no other state.
C30_FiresOncePerTickWhenReady ==
  \A u \in Offensive, dt \in FrameDts :
    LET after == towerUpdate(World, u, dt)
        fired == after.projectiles # projectiles
    IN  /\ fired => /\ TickCooldown(u, dt) <= 0
                    /\ InReach(u) # {}
                    /\ Len(after.projectiles) = Len(projectiles) + 1
                    /\ SubSeq(after.projectiles, 1, Len(projectiles)) = projectiles
                    /\ after.projectiles[Len(after.projectiles)].x = tw[u].x
                    /\ after.projectiles[Len(after.projectiles)].y = tw[u].y
                    /\ after.projectiles[Len(after.projectiles)].towerId = tw[u].id
                    /\ after.tw[u].cooldown = tw[u].stats.firerate_s
        /\ ~fired => after.tw[u].cooldown = TickCooldown(u, dt)
        /\ InReach(u) = {} => ~fired
        /\ (TickCooldown(u, dt) <= 0 /\ InReach(u) # {} /\ canAttack(tw[u])) => fired
        /\ [after EXCEPT !.projectiles = projectiles,
                         !.tw[u].cooldown = tw[u].cooldown] = World

\* A tower whose cooldown runs out in the next tick with an enemy in range, so
\* that it fires in that tick, and a ready tower with enemies on the path and
\* none of them in range.
C30_OneFiresOneWaits ==
  /\ \E u \in Offensive, dt \in FrameDts :
       /\ tw[u].cooldown > 0
       /\ TickCooldown(u, dt) <= 0
       /\ towerUpdate(World, u, dt).projectiles # projectiles
  /\ \E v \in Offensive :
       /\ tw[v].cooldown <= 0
       /\ enemies # << >>
       /\ InReach(v) = {}

(***************************************************************************)
(* Replacing a status effect.                                              *)
(***************************************************************************)

\* Slow values in percent, below, at and above the boss threshold, and durations
\* in milliseconds, below, at and above the on-hit duration.
AppliedValues == { 10, 25, 34, 35, 50 }
AppliedDurations == { 500, SLOW_DURATION, 2000 }

\* C31: an enemy holds one record per effect type; applyStatusEffect stores the
\* new record if the enemy has none of the type, and replaces the stored one if
\* and only if the new value is strictly greater than the stored value or the new
\* duration strictly greater than the stored remaining duration; otherwise the
\* enemy is unchanged, speed included. A slow below 0.35 applied to the boss is
\* dropped and the boss is unchanged.
C31_ReplacedOnlyByStrongerOrLonger ==
  \A i \in DOMAIN en, value \in AppliedValues, duration \in AppliedDurations :
    LET e == en[i]
        after == applyStatusEffect(e, "slow", value, duration)
        new == [ value |-> value, duration |-> duration ]
    IN  IF e.id = "pest_boss" /\ value < BOSS_SLOW_THRESHOLD THEN after = e
        ELSE IF ~HasEffect(e, "slow") \/ value > e.statusEffects["slow"].value
                \/ duration > e.statusEffects["slow"].duration
        THEN /\ after.statusEffects["slow"] = new
             /\ DOMAIN after.statusEffects = DOMAIN e.statusEffects \cup { "slow" }
             /\ after.speed * 100 = e.baseSpeed * (100 - value)
             /\ [after EXCEPT !.statusEffects = e.statusEffects, !.speed = e.speed] = e
        ELSE after = e

\* An enemy under a slow of 35 percent that has decayed to 1 s: the same slow
\* with 0.5 s is refused, a slow of 25 percent for 1.5 s replaces it.
C31_WeakerButLonger ==
  /\ HasEffect(en[1], "slow")
  /\ en[1].statusEffects["slow"] = [ value |-> 35, duration |-> 1000 ]
  /\ applyStatusEffect(en[1], "slow", 35, 500) = en[1]
  /\ applyStatusEffect(en[1], "slow", 25, SLOW_DURATION).statusEffects["slow"].value = 25

(***************************************************************************)
(* The hit of a single-target projectile.                                  *)
(***************************************************************************)

\* Projectile k is in flight for an enemy that is alive and within the arrival
\* epsilon, and is not at the end of its lifetime in a tick of dt.
AboutToHit(k, dt) ==
  /\ projectiles[k].active
  /\ projectiles[k].aoeRadius = 0
  /\ projectiles[k].target # 0
  /\ en[projectiles[k].target].hp > 0
  /\ Dist2(projectiles[k], en[projectiles[k].target]) < Sq(HIT_EPSILON)
  /\ projectiles[k].lifetime + dt <= MAX_LIFETIME

\* C32: a single-target projectile within 10 px of its living target takes its
\* damage off the target's hp once (not below 0), applies the tower's slow of
\* slow_pct for 1.5 s to that enemy in the same step when the tower has one,
\* adds the damage to the statistic of the firing tower, touches no other enemy
\* and is inactive afterwards; a further update of it changes nothing, so it
\* damages no enemy twice.
C32_HitsOnceThenInactive ==
  \A k \in DOMAIN projectiles, dt \in FrameDts :
    AboutToHit(k, dt) =>
      LET p == projectiles[k]
          after == projectileUpdate(World, k, dt)
          damaged == [en[p.target] EXCEPT !.hp = Max(0, @ - p.damage)]
      IN  /\ after.en[p.target].hp = damaged.hp
          /\ after.en[p.target] =
               IF p.slow_pct # 0
               THEN applyStatusEffect(damaged, "slow", p.slow_pct, SLOW_DURATION)
               ELSE damaged
          /\ \A i \in DOMAIN en \ { p.target } : after.en[i] = en[i]
          /\ after.gameStats.damageDealt =
               [gameStats.damageDealt EXCEPT ![p.towerId] = @ + p.damage]
          /\ ~after.projectiles[k].active
          /\ [after.projectiles[k] EXCEPT !.active = TRUE, !.lifetime = p.lifetime] = p
          /\ projectileUpdate(after, k, dt) = after
          /\ updateProjectiles(World, dt).projectiles =
               SelectSeq(updateProjectiles(World, dt).projectiles,
                         LAMBDA q : q.active)

\* A drone's projectile has reached a pest at full health that is not slowed:
\* the hit takes one of its two hit points and slows it.
C32_ReachedAnUnslowedPest ==
  \E k \in DOMAIN projectiles :
    /\ AboutToHit(k, MAX_DELTA_TIME)
    /\ projectiles[k].slow_pct # 0
    /\ en[projectiles[k].target].hp = 2
    /\ ~HasEffect(en[projectiles[k].target], "slow")
    /\ HasEffect(projectileUpdate(World, k, MAX_DELTA_TIME).en[projectiles[k].target], "slow")

(***************************************************************************)
(* The explosion of an area projectile.                                    *)
(***************************************************************************)

\* Projectile k is an area projectile in flight that is not at the end of its
\* lifetime in a tick of dt.
AreaInFlight(k, dt) ==
  /\ projectiles[k].active
  /\ projectiles[k].aoeRadius > 0
  /\ projectiles[k].lifetime + dt <= MAX_LIFETIME

\* The enemies of the enemy list that are alive and at most the blast radius
\* from projectile k.
InBlast(k) ==
  { i \in Range(enemies) :
      /\ en[i].hp > 0
      /\ Dist2(projectiles[k], en[i]) <= Sq(projectiles[k].aoeRadius) }

\* C33: the impact point of an area projectile is the position its target had
\* when the tower fired, and no update changes it; short of the point the
\* projectile moves and damages nothing; within the epsilon of it, it takes its
\* damage once off every enemy that is then alive and within the blast radius,
\* the boundary included, and off no other, adds the damage once per enemy hit
\* to the statistic of the firing tower and is inactive afterwards, so that a
\* further update changes nothing.
C33_ExplodesOnceAtTheCapturedPoint ==
  /\ \A u \in Offensive, dt \in FrameDts :
       LET after == towerUpdate(World, u, dt)
           shot == after.projectiles[Len(after.projectiles)]
       IN  (tw[u].type = "aoe" /\ after.projectiles # projectiles) =>
             /\ shot.target = 0
             /\ \E i \in InReach(u) : shot.targetPos = [ x |-> en[i].x, y |-> en[i].y ]
  /\ \A k \in DOMAIN projectiles, dt \in FrameDts :
       AreaInFlight(k, dt) =>
         LET p == projectiles[k]
             after == projectileUpdate(World, k, dt)
         IN  /\ after.projectiles[k].targetPos = p.targetPos
             /\ IF Dist2(p, p.targetPos) < Sq(HIT_EPSILON)
                THEN /\ \A i \in DOMAIN en :
                          after.en[i] = IF i \in InBlast(k)
                                        THEN [en[i] EXCEPT !.hp = Max(0, @ - p.damage)]
                                        ELSE en[i]
                     /\ after.gameStats.damageDealt =
                          [gameStats.damageDealt EXCEPT
                             ![p.towerId] = @ + p.damage * Cardinality(InBlast(k))]
                     /\ ~after.projectiles[k].active
                     /\ projectileUpdate(after, k, dt) = after
                ELSE /\ after.en = en
                     /\ after.gameStats = gameStats
                     /\ after.projectiles[k].active

\* An area projectile is at its impact point with two living enemies in the
\* blast and a third living enemy out of it, and none of them is at the point.
C33_TwoInTheBlastOneOutside ==
  \E k \in DOMAIN projectiles :
    /\ AreaInFlight(k, MAX_DELTA_TIME)
    /\ Dist2(projectiles[k], projectiles[k].targetPos) < Sq(HIT_EPSILON)
    /\ Cardinality(InBlast(k)) = 2
    /\ \E i \in Range(enemies) \ InBlast(k) : en[i].hp > 0

(***************************************************************************)
(* The infection debuff under other configurations.                        *)
(***************************************************************************)

\* Effects a configuration may carry: both signs of both percentages.
DebuffChoices ==
  [ firerate_pct : { -25, 0, 25 }, range_pct : { -25, 0, 25 } ]

\* C34: whatever the signs of the percentages of the configured effect, the
\* debuff leaves an infected tower with a fire interval that is at least its
\* buffed one and with a range that is at most its buffed one.
C34_DebuffOnlyWorsens ==
  \A u \in Range(towers), debuff \in DebuffChoices :
    IsInfected(tw[u]) =>
      LET stats == InfectionDebuff(tw[u].buffedStats, debuff)
      IN  /\ stats.firerate_s >= tw[u].buffedStats.firerate_s
          /\ stats.range <= tw[u].buffedStats.range

\* An infected tower whose range a positive range_pct would raise above the
\* buffed range, while the configured negative range_pct lowered it.
C34_PositiveRangePctImproves ==
  \E u \in Range(towers) :
    /\ IsInfected(tw[u])
    /\ tw[u].stats.range < tw[u].buffedStats.range
    /\ InfectionDebuff(tw[u].buffedStats, [ firerate_pct |-> 25, range_pct |-> 25 ]).range
         > tw[u].buffedStats.range

(***************************************************************************)
(* The infection tick.                                                     *)
(***************************************************************************)

\* The towers an infection tick may strike.
Eligible ==
  { u \in Range(towers) : ~IsInfected(tw[u]) /\ tw[u].type # "support_sensor" }

\* C35: an infection tick changes nothing unless infection is configured and a
\* wave is in progress; then it adds dt to the accumulator and, short of
\* every_s, does nothing else; at every_s the accumulator is 0 again and, if a
\* tower is eligible, exactly one eligible tower changes: it is infected with
\* cureClicks 0 and infectionsTotal grows by one, while every other tower, the
\* infected ones with their cure progress included, is as before; with no
\* eligible tower no tower changes and the statistics are as before.
C35_TickInfectsOneEligibleTower ==
  \A dt \in FrameDts, rnd \in 0 .. MaxPlaced - 1 :
    LET after == infectionUpdate(World, dt, rnd)
        struck == { u \in DOMAIN tw : after.tw[u] # tw[u] }
    IN  IF ~infEnabled \/ ~waveInProgress
        THEN after = World
        ELSE IF infTimer + dt < InfectionSettings.every_s
        THEN after = [World EXCEPT !.infTimer = infTimer + dt]
        ELSE /\ after.infTimer = 0
             /\ IF Eligible = {}
                THEN /\ after.tw = tw
                     /\ after.gameStats = gameStats
                ELSE /\ \E u \in Eligible :
                          /\ struck = { u }
                          /\ IsInfected(after.tw[u])
                          /\ after.tw[u].infection[1].cureClicks = 0
                     /\ after.gameStats =
                          [gameStats EXCEPT !.infectionsTotal = @ + 1]

\* The tick is due in a wave with a tower that is eligible and a tower that was
\* clicked once and is still infected.
C35_TickDueWithAHalfCuredTower ==
  /\ infEnabled
  /\ waveInProgress
  /\ infTimer + MAX_DELTA_TIME >= InfectionSettings.every_s
  /\ Eligible # {}
  /\ \E u \in Range(towers) :
       IsInfected(tw[u]) /\ tw[u].infection[1].cureClicks = 1

(***************************************************************************)
(* The auto-cure and the pause.                                            *)
(***************************************************************************)

\* C36: while the game is paused, the step in which a pending auto-cure
\* timeout runs changes no tower, so neither an infection record nor a stat,
\* and leaves the infectionsCured statistic as it is.
C36_AutoCureWaitsWhilePaused ==
  [][(isPaused /\ timers # << >> /\ timers' = Tail(timers)) =>
       /\ tw' = tw
       /\ gameStats'.infectionsCured = gameStats.infectionsCured]_vars

\* The game is paused while the oldest pending timeout holds a tower that is
\* still infected.
C36_PausedWithACureDue ==
  /\ isPaused
  /\ timers # << >>
  /\ IsInfected(tw[Head(timers).tower])
  /\ Head(timers).tower \in Range(towers)

(***************************************************************************)
(* Projectiles and their arrival zone.                                     *)
(***************************************************************************)

\* C37: an area projectile, whose destination is a captured point within the
\* range of its tower, resolves before its lifetime is over: no update of an
\* active one, with the time step of a frame, retires it for its age.
C37_StationaryDestinationIsReached ==
  \A k \in DOMAIN projectiles, dt \in FrameDts :
    (projectiles[k].active /\ projectiles[k].aoeRadius > 0) =>
      LET after == projectileUpdate(World, k, dt).projectiles[k]
      IN  ~(after.active = FALSE /\ after.lifetime > MAX_LIFETIME)

\* An area projectile is at the end of its lifetime less than a step of
\* MAX_DELTA_TIME from its impact point and not within the epsilon of it.
C37_SteppedOverForFiveSeconds ==
  \E k \in DOMAIN projectiles :
    /\ projectiles[k].active
    /\ projectiles[k].aoeRadius > 0
    /\ projectiles[k].lifetime = MAX_LIFETIME
    /\ ~Arrived(projectiles[k], projectiles[k].targetPos)
    /\ Dist2(projectiles[k], projectiles[k].targetPos)
         < Sq((PROJECTILE_SPEED * MAX_DELTA_TIME) \div 1000)

(***************************************************************************)
(* The end of a wave.                                                      *)
(***************************************************************************)

\* C38: under frames that keep coming, a wave in play is followed by a state
\* in which the game has left the playing state, with the spawn queue drained
\* and the enemy list empty unless the game is over.
C38_EveryWaveEnds ==
  (currentState = "playing") ~>
    (/\ currentState \in { "wave_break", "victory", "game_over" }
     /\ currentState # "game_over" => (spawnQueue = << >> /\ enemies = << >>))

\* A wave has ended after the drone killed an enemy and another enemy reached
\* the end of the path.
C38_EndedWithAKillAndAnEscape ==
  /\ currentState = "wave_break"
  /\ currentWave = 1
  /\ gameStats.enemiesKilled >= 1
  /\ lives < GameSettings.start_lives

(***************************************************************************)
(* The infection statistics.                                               *)
(***************************************************************************)

\* C39: no more infections are counted as cured than were counted in total;
\* every infection record, of a tower in play or not, has between 0 and
\* cureRequired - 1 cure clicks; and a cure of a tower that was just cured,
\* by a click or by a timeout, changes nothing.
C39_EachInfectionCuredOnce ==
  /\ gameStats.infectionsCured <= gameStats.infectionsTotal
  /\ \A u \in DOMAIN tw :
       /\ IsInfected(tw[u]) =>
            /\ tw[u].infection[1].cureClicks >= 0
            /\ tw[u].infection[1].cureClicks < tw[u].infection[1].cureRequired
       /\ autoCure(cure(World, u), u) = cure(World, u)
       /\ handleClickCure(autoCure(World, u), u) = autoCure(World, u)

\* Two timeouts are pending for one tower, which the player has cured by
\* clicks in the meantime, and every infection so far is counted as cured.
C39_TwoTimersForACuredTower ==
  /\ Len(timers) >= 2
  /\ timers[1].tower = timers[2].tower
  /\ ~IsInfected(tw[timers[1].tower])
  /\ gameStats.infectionsTotal >= 1
  /\ gameStats.infectionsCured = gameStats.infectionsTotal

=============================================================================
